---- MODULE Spec2Model ----
(***************************************************************************)
(* Model of the syntax tokenizer and the cross-line bracket matching of    *)
(* the editor: src/src/syntax.rs (tokenizer, highlighter) and              *)
(* src/src/ui/editor.rs (whole-buffer scan and per-line rendering in       *)
(* draw_editor_pane).                                                      *)
(*                                                                         *)
(* A character is a one-character string, a line is a sequence of          *)
(* characters.  Offsets inside a line are BYTE offsets as in the source    *)
(* (char_indices), so a character carries its UTF-8 width.                 *)
(***************************************************************************)
EXTENDS Integers, Sequences, FiniteSets, TLC

\* ------------------------------------------------------------------------
\* Bounds of the model
\* ------------------------------------------------------------------------
\* single-line highlighting specification: characters of the line
MaxHlLen == 3
\* whole-buffer specification: lines of a buffer, characters of a buffer
MaxLines == 2
MaxChars == 3
\* single-line specification: characters of the content
MaxTokLen == 3
\* rows of the editor area
MaxHeight == 2

\* ------------------------------------------------------------------------
\* Characters
\* ------------------------------------------------------------------------
\* Option::None of a peeked character
None == ""

OpenBrackets == {"(", "[", "{"}
CloseBrackets == {")", "]", "}"}
AsciiDigits == {"0", "1", "2", "3", "4", "5", "6", "7", "8", "9"}
AsciiUpper ==
  {"A", "B", "C", "D", "E", "F", "G", "H", "I", "J", "K", "L", "M", "N", "O",
   "P", "Q", "R", "S", "T", "U", "V", "W", "X", "Y", "Z"}
AsciiLower ==
  {"a", "b", "c", "d", "e", "f", "g", "h", "i", "j", "k", "l", "m", "n", "o",
   "p", "q", "r", "s", "t", "u", "v", "w", "x", "y", "z"}
\* a two-byte alphabetic character
NonAscii == {"é"}
Whitespace == {" ", "\t"}

\* char::len_utf8
len_utf8(c) == IF c \in NonAscii THEN 2 ELSE 1

\* char::is_ascii_digit
is_ascii_digit(c) == c \in AsciiDigits

\* char::is_alphanumeric
is_alphanumeric(c) == c \in AsciiDigits \cup AsciiUpper \cup AsciiLower \cup NonAscii

\* char::is_whitespace
is_whitespace(c) == c \in Whitespace

\* char::is_ascii_uppercase
is_ascii_uppercase(c) == c \in AsciiUpper

\* the predicate  |c| c.is_alphanumeric() || c == '_'
IsWordChar(c) == is_alphanumeric(c) \/ c = "_"

\* RUST_KEYWORDS, each keyword as its sequence of characters
RUST_KEYWORDS ==
  { <<"a","s">>, <<"b","r","e","a","k">>, <<"c","o","n","s","t">>,
    <<"c","o","n","t","i","n","u","e">>, <<"c","r","a","t","e">>,
    <<"e","l","s","e">>, <<"e","n","u","m">>, <<"e","x","t","e","r","n">>,
    <<"f","a","l","s","e">>, <<"f","n">>, <<"f","o","r">>, <<"i","f">>,
    <<"i","m","p","l">>, <<"i","n">>, <<"l","e","t">>, <<"l","o","o","p">>,
    <<"m","a","t","c","h">>, <<"m","o","d">>, <<"m","o","v","e">>,
    <<"m","u","t">>, <<"p","u","b">>, <<"r","e","f">>,
    <<"r","e","t","u","r","n">>, <<"s","e","l","f">>, <<"S","e","l","f">>,
    <<"s","t","a","t","i","c">>, <<"s","t","r","u","c","t">>,
    <<"s","u","p","e","r">>, <<"t","r","a","i","t">>, <<"t","r","u","e">>,
    <<"t","y","p","e">>, <<"u","n","s","a","f","e">>, <<"u","s","e">>,
    <<"w","h","e","r","e">>, <<"w","h","i","l","e">>,
    <<"a","s","y","n","c">>, <<"a","w","a","i","t">>, <<"d","y","n">> }

\* ------------------------------------------------------------------------
\* Strings as sequences of characters, byte offsets
\* ------------------------------------------------------------------------
RECURSIVE ByteIndex(_, _)
\* the byte offset of the character at character position pos (0-based), or
\* the byte length of the content when pos = Len(content): what
\* char_indices yields, and content.len()
ByteIndex(content, pos) ==
  IF pos = 0 THEN 0
  ELSE ByteIndex(content, pos - 1) + len_utf8(content[pos])

\* str::len
ByteLen(content) == ByteIndex(content, Len(content))

\* the character position of a byte offset that is a character boundary
CharPos(content, b) ==
  CHOOSE k \in 0..Len(content) : ByteIndex(content, k) = b

\* the slice  &content[start..end]  (byte offsets)
Slice(content, start, end) ==
  SubSeq(content, CharPos(content, start) + 1, CharPos(content, end))

RECURSIVE Concat(_)
\* concatenation of a sequence of strings
Concat(ss) == IF ss = <<>> THEN <<>> ELSE Head(ss) \o Concat(Tail(ss))

\* ------------------------------------------------------------------------
\* Tokenizer (one line)
\* ------------------------------------------------------------------------
\* BracketState::new
BracketState_new == <<>>

\* TokenType variants
TT(kind) == [kind |-> kind]
Bracket(level, is_matched) ==
  [kind |-> "Bracket", level |-> level, is_matched |-> is_matched]

\* struct Token
Token(content, token_type, start, end) ==
  [content |-> content, token_type |-> token_type, start |-> start, end |-> end]

\* the result of one scanner step: the token, the iterator's new character
\* position and the bracket stack
Step(token, pos, stack) == [token |-> token, pos |-> pos, stack |-> stack]

\* Tokenizer::peek_char_and_index, the character
peek_char(content, pos) ==
  IF pos < Len(content) THEN content[pos + 1] ELSE None

\* Tokenizer::peek_next_char
peek_next_char(content, pos) ==
  IF pos + 1 < Len(content) THEN content[pos + 2] ELSE None

\* Tokenizer::advance
advance(content, pos) == IF pos < Len(content) THEN pos + 1 ELSE pos

\* the closures handed to Tokenizer::take_while, by name
Holds(predicate, c) ==
  CASE predicate = "any" -> TRUE
    [] predicate = "word" -> IsWordChar(c)
    [] predicate = "digit" -> is_ascii_digit(c)
    [] predicate = "whitespace" -> is_whitespace(c)

RECURSIVE take_while(_, _, _)
\* Tokenizer::take_while; gives the iterator's new character position (the
\* byte offset the source returns is ByteIndex of it)
take_while(content, pos, predicate) ==
  IF pos < Len(content) /\ Holds(predicate, content[pos + 1])
  THEN take_while(content, pos + 1, predicate)
  ELSE pos

RECURSIVE take_while_quoted_no_escape(_, _, _, _)
\* take_while_quoted with the closure  |c| c != quote_char : a backslash
\* escapes nothing
take_while_quoted_no_escape(content, pos, quote_char, escaped) ==
  IF pos < Len(content) /\ content[pos + 1] # quote_char
  THEN take_while_quoted_no_escape(content, pos + 1, quote_char, FALSE)
  ELSE pos

RECURSIVE take_while_quoted_inverted(_, _, _, _)
\* take_while_quoted with the closure's last test inverted (c == quote_char):
\* the scan stops at the first character that is not the quote
take_while_quoted_inverted(content, pos, quote_char, escaped) ==
  IF pos >= Len(content) THEN pos
  ELSE LET c == content[pos + 1] IN
       IF escaped
       THEN take_while_quoted_inverted(content, pos + 1, quote_char, FALSE)
       ELSE IF c = "\\"
            THEN take_while_quoted_inverted(content, pos + 1, quote_char, TRUE)
       ELSE IF c = quote_char
            THEN take_while_quoted_inverted(content, pos + 1, quote_char, FALSE)
            ELSE pos

RECURSIVE take_while_quoted(_, _, _, _)
\* Tokenizer::take_while with the closure of tokenize_quoted_string, whose
\* captured flag `escaped` is the last parameter
take_while_quoted(content, pos, quote_char, escaped) ==
  IF pos >= Len(content) THEN pos
  ELSE LET c == content[pos + 1] IN
       IF escaped THEN take_while_quoted(content, pos + 1, quote_char, FALSE)
       ELSE IF c = "\\" THEN take_while_quoted(content, pos + 1, quote_char, TRUE)
       ELSE IF c # quote_char
            THEN take_while_quoted(content, pos + 1, quote_char, FALSE)
            ELSE pos

\* tokenize_comment that takes the two slashes only
tokenize_comment_slashes_only(content, pos, stack) ==
  LET start == ByteIndex(content, pos)
      p == advance(content, advance(content, pos))
      end == ByteIndex(content, p)
  IN Step(Token(Slice(content, start, end), TT("Comment"), start, end), p, stack)

\* Tokenizer::tokenize_comment
tokenize_comment(content, pos, stack) ==
  LET start == ByteIndex(content, pos)
      p == take_while(content, pos, "any")
      end == ByteIndex(content, p)
  IN Step(Token(Slice(content, start, end), TT("Comment"), start, end), p, stack)

\* tokenize_quoted_string that gives the opening quote as a token of its own
tokenize_quoted_string_quote_only(content, pos, stack, quote_char) ==
  LET start == ByteIndex(content, pos)
      p1 == advance(content, pos)
      end == ByteIndex(content, p1)
  IN Step(Token(Slice(content, start, end), TT("String"), start, end), p1, stack)

\* tokenize_quoted_string that ends the token at `_end`, the offset
\* take_while returned, instead of the offset after the closing quote
tokenize_quoted_string_body_end(content, pos, stack, quote_char) ==
  LET start == ByteIndex(content, pos)
      p1 == advance(content, pos)
      p2 == take_while_quoted(content, p1, quote_char, FALSE)
      p3 == advance(content, p2)
      end == ByteIndex(content, p2)
  IN Step(Token(Slice(content, start, end), TT("String"), start, end), p3, stack)

\* Tokenizer::tokenize_quoted_string
tokenize_quoted_string(content, pos, stack, quote_char) ==
  LET start == ByteIndex(content, pos)
      p1 == advance(content, pos)
      p2 == take_while_quoted(content, p1, quote_char, FALSE)
      p3 == advance(content, p2)
      final_end == ByteIndex(content, p3)
  IN Step(Token(Slice(content, start, final_end), TT("String"), start, final_end),
          p3, stack)

\* tokenize_char_literal_or_lifetime that takes a lifetime whenever a word
\* character follows the `'`, without looking at the character after it
tokenize_char_literal_or_lifetime_no_lookahead(content, pos, stack) ==
  LET start == ByteIndex(content, pos)
      c1 == peek_char(content, pos + 1)
  IN IF c1 # None /\ IsWordChar(c1)
     THEN LET p == take_while(content, advance(content, pos), "word")
              end == ByteIndex(content, p)
          IN Step(Token(Slice(content, start, end), TT("Identifier"), start, end),
                  p, stack)
     ELSE tokenize_quoted_string(content, pos, stack, "'")

\* Tokenizer::tokenize_char_literal_or_lifetime
tokenize_char_literal_or_lifetime(content, pos, stack) ==
  LET start == ByteIndex(content, pos)
      c1 == peek_char(content, pos + 1)
      c2 == peek_char(content, pos + 2)
  IN IF c1 # None /\ IsWordChar(c1) /\ (c2 = None \/ c2 # "'")
     THEN LET p == take_while(content, advance(content, pos), "word")
              end == ByteIndex(content, p)
          IN Step(Token(Slice(content, start, end), TT("Identifier"), start, end),
                  p, stack)
     ELSE tokenize_quoted_string(content, pos, stack, "'")

\* tokenize_open_bracket that records the column inside the content,
\* without content_start_col
tokenize_open_bracket_content_col(content, pos, stack, line_idx, content_start_col) ==
  LET start == ByteIndex(content, pos)
      ch == content[pos + 1]
  IN Step(Token(<<ch>>, Bracket(Len(stack), TRUE), start, start + 1),
          advance(content, pos),
          Append(stack, <<ch, line_idx, start>>))

\* tokenize_open_bracket that reads the depth after the push
tokenize_open_bracket_level_after(content, pos, stack, line_idx, content_start_col) ==
  LET start == ByteIndex(content, pos)
      ch == content[pos + 1]
      col == content_start_col + start
      pushed == Append(stack, <<ch, line_idx, col>>)
  IN Step(Token(<<ch>>, Bracket(Len(pushed), TRUE), start, start + 1),
          advance(content, pos), pushed)

\* Tokenizer::tokenize_open_bracket
tokenize_open_bracket(content, pos, stack, line_idx, content_start_col) ==
  LET start == ByteIndex(content, pos)
      ch == content[pos + 1]
      level == Len(stack)
      col == content_start_col + start
  IN Step(Token(<<ch>>, Bracket(level, TRUE), start, start + 1),
          advance(content, pos),
          Append(stack, <<ch, line_idx, col>>))

\* the match of tokenize_close_bracket with two arms exchanged
expected_open_swapped(ch) ==
  CASE ch = ")" -> "["
    [] ch = "]" -> "("
    [] ch = "}" -> "{"

\* the match of tokenize_close_bracket
expected_open(ch) ==
  CASE ch = ")" -> "("
    [] ch = "]" -> "["
    [] ch = "}" -> "{"

\* tokenize_close_bracket that gives a close bracket with no matching open
\* on the stack as a Symbol token
tokenize_close_bracket_symbol(content, pos, stack) ==
  LET start == ByteIndex(content, pos)
      ch == content[pos + 1]
      hit == stack # <<>> /\ stack[Len(stack)][1] = expected_open(ch)
      stack2 == IF hit THEN SubSeq(stack, 1, Len(stack) - 1) ELSE stack
  IN Step(Token(<<ch>>, IF hit THEN Bracket(Len(stack2), hit) ELSE TT("Symbol"),
                start, start + 1),
          advance(content, pos), stack2)

\* tokenize_close_bracket that finds its open bracket on top of the stack and
\* leaves it there
tokenize_close_bracket_keep_stack(content, pos, stack) ==
  LET start == ByteIndex(content, pos)
      ch == content[pos + 1]
      hit == stack # <<>> /\ stack[Len(stack)][1] = expected_open(ch)
  IN Step(Token(<<ch>>, Bracket(IF hit THEN Len(stack) - 1 ELSE Len(stack), hit),
                start, start + 1),
          advance(content, pos), stack)

\* tokenize_close_bracket that keeps the depth read before the pop
tokenize_close_bracket_level_before(content, pos, stack) ==
  LET start == ByteIndex(content, pos)
      ch == content[pos + 1]
      hit == stack # <<>> /\ stack[Len(stack)][1] = expected_open(ch)
      stack2 == IF hit THEN SubSeq(stack, 1, Len(stack) - 1) ELSE stack
  IN Step(Token(<<ch>>, Bracket(Len(stack), hit), start, start + 1),
          advance(content, pos), stack2)

\* tokenize_close_bracket that pops whatever open bracket is on top of the
\* stack, of the close bracket's kind or not
tokenize_close_bracket_any_kind(content, pos, stack) ==
  LET start == ByteIndex(content, pos)
      ch == content[pos + 1]
      hit == stack # <<>>
      stack2 == IF hit THEN SubSeq(stack, 1, Len(stack) - 1) ELSE stack
  IN Step(Token(<<ch>>, Bracket(Len(stack2), hit), start, start + 1),
          advance(content, pos), stack2)

\* Tokenizer::tokenize_close_bracket
tokenize_close_bracket(content, pos, stack) ==
  LET start == ByteIndex(content, pos)
      ch == content[pos + 1]
      hit == stack # <<>> /\ stack[Len(stack)][1] = expected_open(ch)
      stack2 == IF hit THEN SubSeq(stack, 1, Len(stack) - 1) ELSE stack
  IN Step(Token(<<ch>>, Bracket(Len(stack2), hit), start, start + 1),
          advance(content, pos), stack2)

\* tokenize_number that takes the run of word characters, letters included
tokenize_number_word_run(content, pos, stack) ==
  LET start == ByteIndex(content, pos)
      p == take_while(content, pos, "word")
      end == ByteIndex(content, p)
  IN Step(Token(Slice(content, start, end), TT("Number"), start, end), p, stack)

\* Tokenizer::tokenize_number
tokenize_number(content, pos, stack) ==
  LET start == ByteIndex(content, pos)
      p == take_while(content, pos, "digit")
      end == ByteIndex(content, p)
  IN Step(Token(Slice(content, start, end), TT("Number"), start, end), p, stack)

\* classify_word that looks at the first character before it looks at the
\* character after the word
classify_word_type_first(word, next_char) ==
  IF word \in RUST_KEYWORDS THEN TT("Keyword")
  ELSE IF word # <<>> /\ is_ascii_uppercase(word[1]) THEN TT("Type")
  ELSE IF next_char = "(" THEN TT("Function")
  ELSE TT("Identifier")

\* classify_word
classify_word(word, next_char) ==
  IF word \in RUST_KEYWORDS THEN TT("Keyword")
  ELSE IF next_char = "(" THEN TT("Function")
  ELSE IF word # <<>> /\ is_ascii_uppercase(word[1]) THEN TT("Type")
  ELSE TT("Identifier")

\* tokenize_identifier that ends a Macro token at the end of the word, before
\* the `!` it has taken
tokenize_identifier_macro_end(content, pos, stack) ==
  LET start == ByteIndex(content, pos)
      p == take_while(content, pos, "word")
      end == ByteIndex(content, p)
      word == Slice(content, start, end)
      bang == peek_char(content, p) = "!"
      p2 == IF bang THEN advance(content, p) ELSE p
  IN Step(Token(word,
                IF bang THEN TT("Macro")
                ELSE classify_word(word, peek_char(content, p)),
                start, end),
          p2, stack)

\* tokenize_identifier without the test for a following `!`
tokenize_identifier_no_macro(content, pos, stack) ==
  LET start == ByteIndex(content, pos)
      p == take_while(content, pos, "word")
      end == ByteIndex(content, p)
      word == Slice(content, start, end)
  IN Step(Token(word, classify_word(word, peek_char(content, p)), start, end),
          p, stack)

\* tokenize_identifier that hands classify_word the first character after
\* the whitespace that follows the word
tokenize_identifier_skip_whitespace(content, pos, stack) ==
  LET start == ByteIndex(content, pos)
      p == take_while(content, pos, "word")
      end == ByteIndex(content, p)
      word == Slice(content, start, end)
      bang == peek_char(content, p) = "!"
      p2 == IF bang THEN advance(content, p) ELSE p
      final_end == ByteIndex(content, p2)
      after == take_while(content, p, "whitespace")
  IN Step(Token(IF bang THEN Append(word, "!") ELSE word,
                IF bang THEN TT("Macro")
                ELSE classify_word(word, peek_char(content, after)),
                start, final_end),
          p2, stack)

\* Tokenizer::tokenize_identifier
tokenize_identifier(content, pos, stack) ==
  LET start == ByteIndex(content, pos)
      p == take_while(content, pos, "word")
      end == ByteIndex(content, p)
      word == Slice(content, start, end)
      bang == peek_char(content, p) = "!"
      p2 == IF bang THEN advance(content, p) ELSE p
      final_end == ByteIndex(content, p2)
  IN Step(Token(IF bang THEN Append(word, "!") ELSE word,
                IF bang THEN TT("Macro")
                ELSE classify_word(word, peek_char(content, p)),
                start, final_end),
          p2, stack)

\* Tokenizer::tokenize_whitespace
tokenize_whitespace(content, pos, stack) ==
  LET start == ByteIndex(content, pos)
      p == take_while(content, pos, "whitespace")
      end == ByteIndex(content, p)
  IN Step(Token(Slice(content, start, end), TT("Whitespace"), start, end), p, stack)

\* tokenize_operator that advances once and ends the token after one byte,
\* whatever len is
tokenize_operator_one_char(content, pos, stack, len) ==
  LET start == ByteIndex(content, pos)
  IN Step(Token(Slice(content, start, start + 1), TT("Operator"),
                start, start + 1),
          advance(content, pos), stack)

\* Tokenizer::tokenize_operator
tokenize_operator(content, pos, stack, len) ==
  LET start == ByteIndex(content, pos)
  IN Step(Token(Slice(content, start, start + len), TT("Operator"),
                start, start + len),
          IF pos + len <= Len(content) THEN pos + len ELSE Len(content), stack)

\* tokenize_symbol that peeks at the character without taking it from the
\* iterator
tokenize_symbol_peek_only(content, pos, stack) ==
  LET start == ByteIndex(content, pos)
      ch == content[pos + 1]
  IN Step(Token(<<ch>>, TT("Symbol"), start, start + len_utf8(ch)), pos, stack)

\* Tokenizer::tokenize_symbol
tokenize_symbol(content, pos, stack) ==
  LET start == ByteIndex(content, pos)
      ch == content[pos + 1]
  IN Step(Token(<<ch>>, TT("Symbol"), start, start + len_utf8(ch)),
          advance(content, pos), stack)

\* Tokenizer::next_token, called with a character left (pos < Len(content))
next_token(content, pos, stack, line_idx, content_start_col) ==
  LET ch == content[pos + 1] IN
  IF ch = "/" /\ peek_next_char(content, pos) = "/"
    THEN tokenize_comment(content, pos, stack)
  ELSE IF ch = "\"" THEN tokenize_quoted_string(content, pos, stack, "\"")
  ELSE IF ch = "'" THEN tokenize_char_literal_or_lifetime(content, pos, stack)
  ELSE IF ch \in OpenBrackets
    THEN tokenize_open_bracket(content, pos, stack, line_idx, content_start_col)
  ELSE IF ch \in CloseBrackets THEN tokenize_close_bracket(content, pos, stack)
  ELSE IF is_ascii_digit(ch) THEN tokenize_number(content, pos, stack)
  ELSE IF IsWordChar(ch) THEN tokenize_identifier(content, pos, stack)
  ELSE IF is_whitespace(ch) THEN tokenize_whitespace(content, pos, stack)
  ELSE IF ch = ":" /\ peek_next_char(content, pos) = ":"
    THEN tokenize_operator(content, pos, stack, 2)
  ELSE tokenize_symbol(content, pos, stack)

RECURSIVE run(_, _, _, _, _)
\* Tokenizer::run from character position pos: the tokens and the final stack
run(content, pos, stack, line_idx, content_start_col) ==
  IF pos >= Len(content) THEN [tokens |-> <<>>, stack |-> stack]
  ELSE LET s == next_token(content, pos, stack, line_idx, content_start_col)
           r == run(content, s.pos, s.stack, line_idx, content_start_col)
       IN [tokens |-> <<s.token>> \o r.tokens, stack |-> r.stack]

\* tokenize_with_state: the tokens and the bracket state it leaves
tokenize_with_state(content, line_idx, content_start_col, bracket_state) ==
  IF content = <<>> THEN [tokens |-> <<>>, stack |-> bracket_state]
  ELSE run(content, 0, bracket_state, line_idx, content_start_col)

RECURSIVE count_leading_whitespace(_)
\* count_leading_spaces with the closure  |&ch| ch.is_whitespace() : a tab
\* counts as a leading space
count_leading_whitespace(line) ==
  IF line # <<>> /\ is_whitespace(Head(line))
  THEN 1 + count_leading_whitespace(Tail(line))
  ELSE 0

RECURSIVE count_leading_spaces(_)
\* count_leading_spaces
count_leading_spaces(line) ==
  IF line # <<>> /\ Head(line) = " "
  THEN 1 + count_leading_spaces(Tail(line))
  ELSE 0

\* ------------------------------------------------------------------------
\* Theme and spans
\* ------------------------------------------------------------------------
\* length of the theme's bracket palette and of its indent palette
PaletteLen == 2

\* a colour: a name, and for the entries of a palette their index
Color(name, n) == <<name, n>>

\* struct Theme; the two palettes are sequences of colours
theme ==
  [syntax |->
     [keyword |-> Color("keyword", 0), string |-> Color("string", 0),
      number |-> Color("number", 0), comment |-> Color("comment", 0),
      function |-> Color("function", 0), macro |-> Color("macro", 0),
      type |-> Color("type", 0), identifier |-> Color("identifier", 0),
      operator |-> Color("operator", 0), symbol |-> Color("symbol", 0),
      bracket_colors |-> [k \in 1..PaletteLen |-> Color("bracket", k - 1)],
      unmatched_bracket_fg |-> Color("unmatched_bracket_fg", 0),
      unmatched_bracket_bg |-> Color("unmatched_bracket_bg", 0)],
   ui |-> [indent_colors |-> [k \in 1..PaletteLen |-> Color("indent", k - 1)],
           visual_selection_background |-> Color("visual_selection", 0)]]

\* Style::default(): no foreground, no background
NoColor == Color("none", 0)
Style_default == [fg |-> NoColor, bg |-> NoColor]

\* ratatui Span: a text and a style
Span(content, style) == [content |-> content, style |-> style]

\* INDENT_SPACES
INDENT_SPACES == <<" ", " ", " ", " ">>

\* create_indent_spans
create_indent_spans(line, indent_width, th) ==
  LET space_count == count_leading_spaces(line) IN
  IF indent_width = 0 \/ space_count = 0 THEN <<>>
  ELSE
    LET full_indents == space_count \div indent_width
        remaining_spaces == space_count % indent_width
        indent_colors == th.ui.indent_colors
        full == [k \in 1..full_indents |->
                   Span(INDENT_SPACES,
                        [Style_default EXCEPT
                           !.bg = indent_colors[((k - 1) % Len(indent_colors)) + 1]])]
    IN IF remaining_spaces > 0
       THEN Append(full, Span(Slice(line, full_indents * indent_width, space_count),
                              Style_default))
       ELSE full

\* token_to_span, the style it gives
token_to_span_style(token, syn) ==
  LET k == token.token_type.kind IN
  CASE k = "Keyword" -> [Style_default EXCEPT !.fg = syn.keyword]
    [] k = "String" -> [Style_default EXCEPT !.fg = syn.string]
    [] k = "Number" -> [Style_default EXCEPT !.fg = syn.number]
    [] k = "Comment" -> [Style_default EXCEPT !.fg = syn.comment]
    [] k = "Function" -> [Style_default EXCEPT !.fg = syn.function]
    [] k = "Macro" -> [Style_default EXCEPT !.fg = syn.macro]
    [] k = "Type" -> [Style_default EXCEPT !.fg = syn.type]
    [] k = "Identifier" -> [Style_default EXCEPT !.fg = syn.identifier]
    [] k = "Operator" -> [Style_default EXCEPT !.fg = syn.operator]
    [] k = "Symbol" -> [Style_default EXCEPT !.fg = syn.symbol]
    [] k = "Whitespace" -> Style_default
    [] k = "Bracket" ->
         LET color == syn.bracket_colors[
                        (token.token_type.level % Len(syn.bracket_colors)) + 1]
         IN IF ~token.token_type.is_matched
            THEN [fg |-> syn.unmatched_bracket_fg, bg |-> syn.unmatched_bracket_bg]
            ELSE [Style_default EXCEPT !.fg = color]

\* span_style that looks only at the token's own flag and never at the
\* unmatched-position set
span_style_local_only(token, line_idx, space_count, th, unmatched_brackets) ==
  token_to_span_style(token, th.syntax)

\* the loop body of highlight_syntax_with_state: the style of one token's span
span_style(token, line_idx, space_count, th, unmatched_brackets) ==
  LET base == token_to_span_style(token, th.syntax) IN
  IF token.token_type.kind = "Bracket"
     /\ (~token.token_type.is_matched
          \/ <<line_idx, space_count + token.start>> \in unmatched_brackets)
  THEN [base EXCEPT !.fg = th.syntax.unmatched_bracket_fg,
                    !.bg = th.syntax.unmatched_bracket_bg]
  ELSE base

\* highlight_syntax_with_state without its early return for an empty line
highlight_syntax_with_state_no_empty_arm(line_str, line_idx, iw, bracket_state, th, unmatched) ==
  LET indent_spans == create_indent_spans(line_str, iw, th)
      space_count == count_leading_spaces(line_str)
      content_part == Slice(line_str, space_count, ByteLen(line_str))
  IN IF content_part = <<>>
     THEN [spans |-> indent_spans, tokens |-> <<>>, stack |-> bracket_state]
     ELSE
       LET r == tokenize_with_state(content_part, line_idx, space_count,
                                    bracket_state)
       IN [spans |-> indent_spans \o
               [k \in 1..Len(r.tokens) |->
                  Span(r.tokens[k].content,
                       span_style(r.tokens[k], line_idx, space_count, th,
                                  unmatched))],
           tokens |-> r.tokens,
           stack |-> r.stack]

\* highlight_syntax_with_state: the spans it returns, the tokens it made
\* them from and the bracket state it leaves
highlight_syntax_with_state(line_str, line_idx, iw, bracket_state, th, unmatched) ==
  IF line_str = <<>>
  THEN [spans |-> <<Span(<<>>, Style_default)>>, tokens |-> <<>>,
        stack |-> bracket_state]
  ELSE
    LET indent_spans == create_indent_spans(line_str, iw, th)
        space_count == count_leading_spaces(line_str)
        content_part == Slice(line_str, space_count, ByteLen(line_str))
    IN IF content_part = <<>>
       THEN [spans |-> indent_spans, tokens |-> <<>>, stack |-> bracket_state]
       ELSE
         LET r == tokenize_with_state(content_part, line_idx, space_count,
                                      bracket_state)
         IN [spans |-> indent_spans \o
                 [k \in 1..Len(r.tokens) |->
                    Span(r.tokens[k].content,
                         span_style(r.tokens[k], line_idx, space_count, th,
                                    unmatched))],
             tokens |-> r.tokens,
             stack |-> r.stack]

\* ------------------------------------------------------------------------
\* State
\* ------------------------------------------------------------------------
VARIABLES
  buffer,                  \* Window::buffer, the lines
  pc,                      \* where the program is: "idle" (run_app about to
                           \* draw), inside draw_editor_pane ("scan",
                           \* "render"), "event" (run_app waiting in
                           \* event::read), inside one call of
                           \* tokenize_with_state ("tok", "tokdone") or of
                           \* highlight_syntax_with_state ("hl", "hldone")
  line_idx,                \* the line being tokenised (0-based)
  space_count,             \* content_start_col of the line being tokenised
  pos,                     \* the tokenizer's iterator: characters consumed
  tokens,                  \* the tokens of the line so far
  current_state,           \* the running BracketState (its stack)
  states_by_line,          \* draw_editor_pane's cache
  all_unmatched_brackets,  \* draw_editor_pane's unmatched-position set
  scanned,                 \* history: the tokens the scan produced, per line
  scroll_y,                \* Window::scroll_y
  height,                  \* editor_area.height
  render_idx,              \* the next line the renderer's iterator yields
  text,                    \* the rendered lines (spans), in order
  replayed,                \* history: per rendered line, its index, the
                           \* renderer's tokens and the clone it left
  editor_indent_width,     \* config.editor.indent_width
  mode,                    \* App::mode
  visual_start,            \* Window::visual_start
  cursor_x,                \* Window::cursor_x
  cursor_y,                \* Window::cursor_y
  undo_stack,              \* Window::undo_stack
  redo_stack,              \* Window::redo_stack
  insert_mode_start_state, \* Window::insert_mode_start_state
  returned,                \* the value the last call on the Window returned
  panes,                   \* PaneManager::panes, a map from pane id to Pane
  root_pane,               \* PaneManager::root_pane
  active_pane,             \* PaneManager::active_pane
  next_id,                 \* PaneManager::next_id
  config_theme             \* Config::theme, the theme the highlighter is given

\* the fields of App, of its Window and of its PaneManager that the scan, the
\* renderer outside a Visual selection and the tokenizer never read or write
session_vars ==
  <<mode, visual_start, cursor_x, cursor_y, undo_stack, redo_stack,
    insert_mode_start_state, returned, panes, root_pane, active_pane, next_id,
    config_theme>>

vars == <<buffer, pc, line_idx, space_count, pos, tokens, current_state,
          states_by_line, all_unmatched_brackets, scanned, scroll_y, height,
          render_idx, text, replayed, editor_indent_width, session_vars>>

\* EditorConfig::default().indent_width
indent_width == 4

\* the characters the whole-buffer specification draws its lines from
ScanChars == {"(", ")", "[", "]", "\"", "/", " "}

RECURSIVE BuffersUpTo(_, _)
\* the buffers of at most MaxLines lines and MaxChars characters over the
\* character set S, built in at most n steps (a step adds a line or a
\* character to the last line)
BuffersUpTo(S, n) ==
  IF n = 0 THEN {<<>>}
  ELSE LET B == BuffersUpTo(S, n - 1)
           Chars(b) == Len(Concat(b))
       IN B \cup {Append(b, <<>>) : b \in {x \in B : Len(x) < MaxLines}}
            \cup {[b EXCEPT ![Len(b)] = Append(@, c)] :
                    b \in {x \in B : Len(x) > 0 /\ Chars(x) < MaxChars},
                    c \in S}

\* the file contents Window::new reads into the buffer
Buffers == BuffersUpTo(ScanChars, MaxLines + MaxChars)

\* the contents of the single-line specification
RECURSIVE StringsUpTo(_, _)
StringsUpTo(S, n) ==
  IF n = 0 THEN {<<>>}
  ELSE LET B == StringsUpTo(S, n - 1)
       IN B \cup {Append(b, c) : b \in {x \in B : Len(x) = n - 1}, c \in S}

\* the part of a line after its leading spaces:  &line_str[space_count..]
content_part(line_str) ==
  Slice(line_str, count_leading_spaces(line_str), ByteLen(line_str))

\* the cache without its first push
initial_cache_empty == <<>>

\* the renderer starting every line from a fresh state instead of the clone
cached_state_fresh(states, i) == BracketState_new

\* states_by_line after  states_by_line.push(BracketState::new())
initial_cache == <<BracketState_new>>

\* states_by_line[i].clone()
cached_state(states, i) == states[i + 1]

\* the leftover-stack step that reports only the top entry of the stack
leftover_opens_top_only(stack) ==
  IF stack = <<>> THEN {} ELSE { <<stack[Len(stack)][2], stack[Len(stack)][3]>> }

\* the positions of the entries left on the stack after the last line
leftover_opens(stack) == { <<stack[k][2], stack[k][3]>> : k \in 1..Len(stack) }

\* the scan loop that stops after the first line of the buffer
scan_exhausted_first_line(i, buf) == i >= 1 \/ i >= Len(buf)

\* the scan loop's iterator  window.buffer().iter().enumerate()  has no line
\* left
scan_exhausted(i, buf) == i >= Len(buf)

\* the locals of draw_editor_pane before it runs
NoFrame ==
  /\ line_idx = 0
  /\ space_count = 0
  /\ pos = 0
  /\ tokens = <<>>
  /\ current_state = BracketState_new
  /\ states_by_line = <<>>
  /\ all_unmatched_brackets = {}
  /\ scanned = <<>>
  /\ scroll_y = 0
  /\ height = 0
  /\ render_idx = 0
  /\ text = <<>>
  /\ replayed = <<>>

\* Option::None and Option::Some of a value that is not a character
Nothing == <<>>
Some(x) == <<x>>

\* Pane::new
Pane_new(id, window_index) ==
  [id |-> id, window_index |-> window_index, rect |-> Nothing,
   split |-> Nothing, children |-> <<>>, parent |-> Nothing]

\* App::new with Window::new and PaneManager::new(0): Normal mode, the cursor
\* at the origin, no selection, empty undo and redo stacks, no open insert
\* session, one pane, the root, which is active
InitSession ==
  /\ mode = "Normal"
  /\ visual_start = Nothing
  /\ cursor_x = 0
  /\ cursor_y = 0
  /\ undo_stack = <<>>
  /\ redo_stack = <<>>
  /\ insert_mode_start_state = Nothing
  /\ returned = Nothing
  /\ panes = [id \in {0} |-> Pane_new(0, 0)]
  /\ root_pane = 0
  /\ active_pane = 0
  /\ next_id = 1
  /\ config_theme = theme

\* Window::new on a file
Init ==
  /\ buffer \in Buffers
  /\ pc = "idle"
  /\ NoFrame
  /\ editor_indent_width = indent_width
  /\ InitSession

\* ------------------------------------------------------------------------
\* draw_editor_pane
\* ------------------------------------------------------------------------
\* entry of draw_editor_pane up to the scan loop: the cache holds the empty
\* state, the running state and the unmatched set are empty
Draw ==
  /\ pc = "idle"
  /\ pc' = "scan"
  /\ states_by_line' = initial_cache
  /\ current_state' = BracketState_new
  /\ all_unmatched_brackets' = {}
  /\ line_idx' = 0
  /\ space_count' = IF buffer = <<>> THEN 0 ELSE count_leading_spaces(buffer[1])
  /\ pos' = 0
  /\ tokens' = <<>>
  /\ UNCHANGED <<buffer, scanned, scroll_y, height, render_idx, text, replayed,
                 editor_indent_width, session_vars>>

\* one iteration of Tokenizer::run inside the scan loop
ScanToken ==
  /\ pc = "scan"
  /\ ~scan_exhausted(line_idx, buffer)
  /\ LET content == content_part(buffer[line_idx + 1]) IN
     /\ pos < Len(content)
     /\ LET s == next_token(content, pos, current_state, line_idx, space_count) IN
        /\ tokens' = Append(tokens, s.token)
        /\ pos' = s.pos
        /\ current_state' = s.stack
  /\ UNCHANGED <<buffer, pc, line_idx, space_count, states_by_line,
                 all_unmatched_brackets, scanned, scroll_y, height, render_idx,
                 text, replayed,
                 editor_indent_width, session_vars>>

\* unmatched_closes with the column inside the content, without space_count
unmatched_closes_content_col(toks, i, sc) ==
  { <<i, toks[k].start>> :
      k \in {j \in 1..Len(toks) :
               /\ toks[j].token_type.kind = "Bracket"
               /\ ~toks[j].token_type.is_matched
               /\ toks[j].content \in {<<")">>, <<"]">>, <<"}">>}} }

\* the positions the scan loop inserts for one line's tokens
unmatched_closes(toks, i, sc) ==
  { <<i, sc + toks[k].start>> :
      k \in {j \in 1..Len(toks) :
               /\ toks[j].token_type.kind = "Bracket"
               /\ ~toks[j].token_type.is_matched
               /\ toks[j].content \in {<<")">>, <<"]">>, <<"}">>}} }

\* the rest of the scan loop's body once the line is tokenised: collect the
\* unmatched closes, push the clone of the running state, go to the next line
ScanEndLine ==
  /\ pc = "scan"
  /\ ~scan_exhausted(line_idx, buffer)
  /\ pos >= Len(content_part(buffer[line_idx + 1]))
  /\ all_unmatched_brackets' =
       all_unmatched_brackets \cup unmatched_closes(tokens, line_idx, space_count)
  /\ states_by_line' = Append(states_by_line, current_state)
  /\ scanned' = Append(scanned, tokens)
  /\ line_idx' = line_idx + 1
  /\ space_count' = IF line_idx + 1 < Len(buffer)
                    THEN count_leading_spaces(buffer[line_idx + 2])
                    ELSE 0
  /\ pos' = 0
  /\ tokens' = <<>>
  /\ UNCHANGED <<buffer, pc, current_state, scroll_y, height, render_idx, text,
                 replayed,
                 editor_indent_width, session_vars>>

\* after the last line: the entries left on the stack are unmatched opens.
\* The viewport (scroll_to_cursor, the area's height) is fixed before the
\* scan, which never reads it; the model draws it here.
ScanFinish ==
  /\ pc = "scan"
  /\ scan_exhausted(line_idx, buffer)
  /\ all_unmatched_brackets' =
       all_unmatched_brackets \cup leftover_opens(current_state)
  /\ pc' = "render"
  /\ scroll_y' \in 0..(IF buffer = <<>> THEN 0 ELSE Len(buffer) - 1)
  /\ height' \in {1, MaxHeight}
  /\ render_idx' = scroll_y'
  /\ text' = <<>>
  /\ replayed' = <<>>
  /\ UNCHANGED <<buffer, line_idx, space_count, pos, tokens, current_state,
                 states_by_line, scanned,
                 editor_indent_width, session_vars>>

\* the renderer highlighting through a mutable reference into the cache
\* instead of a clone: the cached entry of the line ends up as the state the
\* line leaves
cache_after_render_in_place(states, i, left) == [states EXCEPT ![i + 1] = left]

\* the cache after a line is rendered: the renderer worked on
\* states_by_line[i].clone(), the cache itself is not written
cache_after_render(states, i, left) == states

\* the last line (exclusive) the renderer's iterator yields
render_end ==
  IF scroll_y + height < Len(buffer) THEN scroll_y + height ELSE Len(buffer)

\* the closure of the render loop for one visible line outside a Visual
\* selection: highlight from a clone of the cached state
RenderLine ==
  /\ pc = "render"
  /\ render_idx < render_end
  /\ LET i == render_idx
         bracket_state == cached_state(states_by_line, i)
         h == highlight_syntax_with_state(buffer[i + 1], i, editor_indent_width,
                                          bracket_state, theme,
                                          all_unmatched_brackets)
     IN /\ text' = Append(text, h.spans)
        /\ replayed' = Append(replayed,
                              [line |-> i, tokens |-> h.tokens, stack |-> h.stack])
        /\ states_by_line' = cache_after_render(states_by_line, i, h.stack)
  /\ render_idx' = render_idx + 1
  /\ UNCHANGED <<buffer, pc, line_idx, space_count, pos, tokens, current_state,
                 all_unmatched_brackets, scanned, scroll_y, height,
                 editor_indent_width, session_vars>>

\* the paragraph is handed to the frame and draw_editor_pane returns: its
\* locals are dropped, and run_app goes on to event::read
RenderFinish ==
  /\ pc = "render"
  /\ render_idx >= render_end
  /\ pc' = "event"
  /\ line_idx' = 0
  /\ space_count' = 0
  /\ pos' = 0
  /\ tokens' = <<>>
  /\ current_state' = BracketState_new
  /\ states_by_line' = <<>>
  /\ all_unmatched_brackets' = {}
  /\ scanned' = <<>>
  /\ scroll_y' = 0
  /\ height' = 0
  /\ render_idx' = 0
  /\ text' = <<>>
  /\ replayed' = <<>>
  /\ UNCHANGED <<buffer, editor_indent_width, session_vars>>

\* ------------------------------------------------------------------------
\* run_app: one event between two frames
\* ------------------------------------------------------------------------
\* a buffer within the bounds of the whole-buffer specification
InBounds(buf) == Len(buf) <= MaxLines /\ Len(Concat(buf)) <= MaxChars

\* Vec::insert on a sequence: x becomes the element at 0-based index k
insert_at(seq, k, x) == SubSeq(seq, 1, k) \o <<x>> \o SubSeq(seq, k + 1, Len(seq))

\* Vec::remove on a sequence: the element at 0-based index k goes
remove_at(seq, k) == SubSeq(seq, 1, k) \o SubSeq(seq, k + 2, Len(seq))

\* the closing character the insert handler pairs with an opening one
opening_char_auto_close(c) ==
  CASE c = "(" -> ")"
    [] c = "[" -> "]"
    [] c = "{" -> "}"
    [] c = "\"" -> "\""
    [] c = "'" -> "'"
    [] OTHER -> None

\* handle_insert_mode_event, KeyCode::Char(c) other than a line break, with
\* the cursor on grapheme cx of line cy: the buffer it leaves
insert_char(buf, cy, cx, c) ==
  LET graphemes == buf[cy + 1]
      is_closing_char == c \in {")", "]", "}", "\"", "'"}
      char_at_cursor == IF cx < Len(graphemes) THEN graphemes[cx + 1] ELSE None
      closing == opening_char_auto_close(c)
  IN IF is_closing_char /\ char_at_cursor = c THEN buf
     ELSE IF closing # None
       THEN [buf EXCEPT ![cy + 1] = insert_at(insert_at(graphemes, cx, c), cx + 1, closing)]
     ELSE [buf EXCEPT ![cy + 1] = insert_at(graphemes, cx, c)]

\* handle_normal_mode_event, "delete_char", with the cursor on grapheme cx of
\* line cy: the buffer it leaves
delete_char(buf, cy, cx) ==
  IF cx < Len(buf[cy + 1])
  THEN [buf EXCEPT ![cy + 1] = remove_at(@, cx)]
  ELSE buf

\* Window::open_new_line with the cursor on line cy: the buffer it leaves
open_new_line(buf, cy) == insert_at(buf, cy + 1, <<>>)

\* an event that leaves the buffer alone (a motion, a mode change, an event
\* that is not a key): run_app goes round its loop and draws again
Event ==
  /\ pc = "event"
  /\ pc' = "idle"
  /\ UNCHANGED <<buffer, line_idx, space_count, pos, tokens, current_state,
                 states_by_line, all_unmatched_brackets, scanned, scroll_y,
                 height, render_idx, text, replayed,
                 editor_indent_width, session_vars>>

\* a key typed in Insert mode.  The cursor is wherever the motions of earlier
\* events left it: any grapheme boundary of any line.
InsertChar ==
  /\ pc = "event"
  /\ \E cy \in 0..(Len(buffer) - 1) :
       \E cx \in 0..Len(buffer[cy + 1]) :
         \E c \in ScanChars :
           /\ InBounds(insert_char(buffer, cy, cx, c))
           /\ buffer' = insert_char(buffer, cy, cx, c)
  /\ pc' = "idle"
  /\ UNCHANGED <<line_idx, space_count, pos, tokens, current_state,
                 states_by_line, all_unmatched_brackets, scanned, scroll_y,
                 height, render_idx, text, replayed,
                 editor_indent_width, session_vars>>

\* the "delete_char" key of Normal mode
DeleteChar ==
  /\ pc = "event"
  /\ \E cy \in 0..(Len(buffer) - 1) :
       \E cx \in 0..Len(buffer[cy + 1]) :
         buffer' = delete_char(buffer, cy, cx)
  /\ pc' = "idle"
  /\ UNCHANGED <<line_idx, space_count, pos, tokens, current_state,
                 states_by_line, all_unmatched_brackets, scanned, scroll_y,
                 height, render_idx, text, replayed,
                 editor_indent_width, session_vars>>

\* the "open_new_line" key of Normal mode
OpenNewLine ==
  /\ pc = "event"
  /\ \E cy \in 0..(Len(buffer) - 1) :
       /\ InBounds(open_new_line(buffer, cy))
       /\ buffer' = open_new_line(buffer, cy)
  /\ pc' = "idle"
  /\ UNCHANGED <<line_idx, space_count, pos, tokens, current_state,
                 states_by_line, all_unmatched_brackets, scanned, scroll_y,
                 height, render_idx, text, replayed,
                 editor_indent_width, session_vars>>

Next ==
  \/ Draw
  \/ ScanToken
  \/ ScanEndLine
  \/ ScanFinish
  \/ RenderLine
  \/ RenderFinish
  \/ Event
  \/ InsertChar
  \/ DeleteChar
  \/ OpenNewLine

Spec == Init /\ [][Next]_vars

\* Window::new without a file: the buffer is one empty line
InitEdit ==
  /\ buffer = << <<>> >>
  /\ pc = "idle"
  /\ NoFrame
  /\ editor_indent_width = indent_width
  /\ InitSession

\* the editor started without a file; every other buffer comes from edits
SpecEdit == InitEdit /\ [][Next]_vars

\* ------------------------------------------------------------------------
\* The scan of a one-line buffer made of brackets only
\* ------------------------------------------------------------------------
\* the longest line of arbitrary brackets
MaxBrackets == 4

\* the deepest line of nested brackets
MaxDepth == 3

\* the close bracket of an open bracket (the match of tokenize_close_bracket
\* read from right to left)
close_of(ch) == CHOOSE c \in CloseBrackets : expected_open(c) = ch

\* the line made of the open brackets opens followed by their close brackets
\* in reverse order, as  ((()))  and  ([{}])  in the tokenizer's tests
Nested(opens) ==
  opens \o [k \in 1..Len(opens) |-> close_of(opens[Len(opens) + 1 - k])]

\* the lines of the one-line buffers: any brackets, and nested brackets
BracketLines ==
  StringsUpTo(OpenBrackets \cup CloseBrackets, MaxBrackets)
    \cup { Nested(opens) : opens \in StringsUpTo(OpenBrackets, MaxDepth) }

\* Window::new on a file of one line of brackets
InitBrackets ==
  /\ buffer \in { <<l>> : l \in BracketLines }
  /\ pc = "idle"
  /\ NoFrame
  /\ editor_indent_width = indent_width
  /\ InitSession

\* draw_editor_pane up to the end of its scan
NextBrackets ==
  \/ Draw
  \/ ScanToken
  \/ ScanEndLine
  \/ ScanFinish

SpecBrackets == InitBrackets /\ [][NextBrackets]_vars

\* ------------------------------------------------------------------------
\* The render closure of one frame applied to the visible lines in any
\* order, any number of times
\* ------------------------------------------------------------------------
\* the number of applications of the render closure in one frame
MaxRenders == 3

\* the characters of the buffers the closure is applied to
RenderChars == {"(", ")", " "}

\* Window::new on a file
InitRender ==
  /\ buffer \in BuffersUpTo(RenderChars, MaxLines + MaxChars)
  /\ pc = "idle"
  /\ NoFrame
  /\ editor_indent_width = indent_width
  /\ InitSession

\* the closure of the render loop applied to some visible line
RenderAny ==
  /\ pc = "render"
  /\ Len(text) < MaxRenders
  /\ \E i \in scroll_y..(render_end - 1) :
       LET bracket_state == cached_state(states_by_line, i)
           h == highlight_syntax_with_state(buffer[i + 1], i, editor_indent_width,
                                            bracket_state, theme,
                                            all_unmatched_brackets)
       IN /\ text' = Append(text, h.spans)
          /\ replayed' = Append(replayed,
                                [line |-> i, tokens |-> h.tokens, stack |-> h.stack])
          /\ states_by_line' = cache_after_render(states_by_line, i, h.stack)
  /\ UNCHANGED <<buffer, pc, line_idx, space_count, pos, tokens, current_state,
                 all_unmatched_brackets, scanned, scroll_y, height, render_idx,
                 editor_indent_width, session_vars>>

\* the frame ends
RenderStop ==
  /\ pc = "render"
  /\ pc' = "rendered"
  /\ UNCHANGED <<buffer, line_idx, space_count, pos, tokens, current_state,
                 states_by_line, all_unmatched_brackets, scanned, scroll_y,
                 height, render_idx, text, replayed,
                 editor_indent_width, session_vars>>

NextRender ==
  \/ Draw
  \/ ScanToken
  \/ ScanEndLine
  \/ ScanFinish
  \/ RenderAny
  \/ RenderStop

SpecRender == InitRender /\ [][NextRender]_vars

\* ------------------------------------------------------------------------
\* One call of tokenize_with_state on an arbitrary content, from an
\* arbitrary starting BracketState
\* ------------------------------------------------------------------------
\* the characters the single-line specification draws its content from
TokChars ==
  {"(", ")", "[", "]", "{", "}", "\"", "'", "\\", "/", "a", "0", " ", "é",
   ":", "!", "~"}

\* the starting bracket states of the single-line specification
SeedStates ==
  { BracketState_new,
    << <<"(", 0, 0>> >>,
    << <<"[", 0, 1>>, <<"{", 0, 3>> >> }

\* the caller's arguments: content, line_idx, content_start_col, bracket_state
InitTok ==
  /\ buffer \in {<<c>> : c \in StringsUpTo(TokChars, MaxTokLen)}
  /\ pc = "tok"
  /\ line_idx = 1
  /\ space_count = 2
  /\ pos = 0
  /\ tokens = <<>>
  /\ current_state \in SeedStates
  /\ states_by_line = <<>>
  /\ all_unmatched_brackets = {}
  /\ scanned = <<>>
  /\ scroll_y = 0
  /\ height = 0
  /\ render_idx = 0
  /\ text = <<>>
  /\ replayed = <<>>
  /\ editor_indent_width = indent_width
  /\ InitSession

\* one iteration of Tokenizer::run
TokStep ==
  /\ pc = "tok"
  /\ pos < Len(buffer[1])
  /\ LET s == next_token(buffer[1], pos, current_state, line_idx, space_count) IN
     /\ tokens' = Append(tokens, s.token)
     /\ pos' = s.pos
     /\ current_state' = s.stack
  /\ UNCHANGED <<buffer, pc, line_idx, space_count, states_by_line,
                 all_unmatched_brackets, scanned, scroll_y, height, render_idx,
                 text, replayed,
                 editor_indent_width, session_vars>>

\* Tokenizer::run leaves its loop and tokenize_with_state returns the tokens
TokReturn ==
  /\ pc = "tok"
  /\ pos >= Len(buffer[1])
  /\ pc' = "tokdone"
  /\ UNCHANGED <<buffer, line_idx, space_count, pos, tokens, current_state,
                 states_by_line, all_unmatched_brackets, scanned, scroll_y,
                 height, render_idx, text, replayed,
                 editor_indent_width, session_vars>>

NextTok ==
  \/ TokStep
  \/ TokReturn

SpecTok == InitTok /\ [][NextTok]_vars

\* the longest content of the calls that classify words
MaxWordLen == 4

\* the characters of those contents: the letters of the keywords `if` and
\* `fi`-like non-keywords, an uppercase letter, `!`, two open brackets and
\* the space
WordTokChars == {"i", "f", "A", "!", "(", "[", " "}

\* the caller's arguments, the content drawn from WordTokChars
InitWord ==
  /\ buffer \in {<<c>> : c \in StringsUpTo(WordTokChars, MaxWordLen)}
  /\ pc = "tok"
  /\ line_idx = 0
  /\ space_count = 0
  /\ pos = 0
  /\ tokens = <<>>
  /\ current_state = BracketState_new
  /\ states_by_line = <<>>
  /\ all_unmatched_brackets = {}
  /\ scanned = <<>>
  /\ scroll_y = 0
  /\ height = 0
  /\ render_idx = 0
  /\ text = <<>>
  /\ replayed = <<>>
  /\ editor_indent_width = indent_width
  /\ InitSession

\* one call of tokenize_with_state on a content of words
SpecWord == InitWord /\ [][NextTok]_vars

\* the longest content of the calls on quotes and slashes
MaxQuoteLen == 5

\* the characters of those contents: both quotes, the backslash, the slash,
\* a letter and an open bracket
QuoteChars == {"\"", "'", "\\", "/", "a", "("}

\* the starting bracket states of those calls
QuoteSeedStates == { BracketState_new, << <<"(", 0, 0>> >> }

\* the caller's arguments, the content drawn from QuoteChars
InitQuote ==
  /\ buffer \in {<<c>> : c \in StringsUpTo(QuoteChars, MaxQuoteLen)}
  /\ pc = "tok"
  /\ line_idx = 1
  /\ space_count = 0
  /\ pos = 0
  /\ tokens = <<>>
  /\ current_state \in QuoteSeedStates
  /\ states_by_line = <<>>
  /\ all_unmatched_brackets = {}
  /\ scanned = <<>>
  /\ scroll_y = 0
  /\ height = 0
  /\ render_idx = 0
  /\ text = <<>>
  /\ replayed = <<>>
  /\ editor_indent_width = indent_width
  /\ InitSession

\* one call of tokenize_with_state on a content of quotes and slashes
SpecQuote == InitQuote /\ [][NextTok]_vars

\* the longest content of the calls on paths
MaxPathLen == 7

\* the characters of those contents: the colon, a letter and the space
PathChars == {":", "a", " "}

\* the caller's arguments, the content drawn from PathChars
InitPath ==
  /\ buffer \in {<<c>> : c \in StringsUpTo(PathChars, MaxPathLen)}
  /\ pc = "tok"
  /\ line_idx = 0
  /\ space_count = 0
  /\ pos = 0
  /\ tokens = <<>>
  /\ current_state = BracketState_new
  /\ states_by_line = <<>>
  /\ all_unmatched_brackets = {}
  /\ scanned = <<>>
  /\ scroll_y = 0
  /\ height = 0
  /\ render_idx = 0
  /\ text = <<>>
  /\ replayed = <<>>
  /\ editor_indent_width = indent_width
  /\ InitSession

\* one call of tokenize_with_state on a content of colons and words
SpecPath == InitPath /\ [][NextTok]_vars

\* the longest content of the calls on numbers
MaxNumLen == 5

\* the characters of those contents: two digits, a sign, the decimal point,
\* the exponent letter and the underscore
NumChars == {"0", "1", "-", ".", "e", "_"}

\* the caller's arguments, the content drawn from NumChars
InitNum ==
  /\ buffer \in {<<c>> : c \in StringsUpTo(NumChars, MaxNumLen)}
  /\ pc = "tok"
  /\ line_idx = 0
  /\ space_count = 0
  /\ pos = 0
  /\ tokens = <<>>
  /\ current_state = BracketState_new
  /\ states_by_line = <<>>
  /\ all_unmatched_brackets = {}
  /\ scanned = <<>>
  /\ scroll_y = 0
  /\ height = 0
  /\ render_idx = 0
  /\ text = <<>>
  /\ replayed = <<>>
  /\ editor_indent_width = indent_width
  /\ InitSession

\* one call of tokenize_with_state on a content of digits, signs, points
\* and letters
SpecNum == InitNum /\ [][NextTok]_vars

\* the characters of the contents whose calls are followed to their return:
\* brackets, both quotes, the backslash, the slash, whitespace, a one-byte
\* and a two-byte letter
TermChars == {"(", "]", "\"", "'", "\\", "/", " ", "a", "é"}

\* the caller's arguments, the content drawn from TermChars
InitTerm ==
  /\ buffer \in {<<c>> : c \in StringsUpTo(TermChars, MaxTokLen)}
  /\ pc = "tok"
  /\ line_idx = 1
  /\ space_count = 2
  /\ pos = 0
  /\ tokens = <<>>
  /\ current_state \in SeedStates
  /\ states_by_line = <<>>
  /\ all_unmatched_brackets = {}
  /\ scanned = <<>>
  /\ scroll_y = 0
  /\ height = 0
  /\ render_idx = 0
  /\ text = <<>>
  /\ replayed = <<>>
  /\ editor_indent_width = indent_width
  /\ InitSession

\* the call runs on: Tokenizer::run is a sequential loop, nothing suspends it
SpecTokFair == InitTerm /\ [][NextTok]_vars /\ WF_vars(NextTok)

\* ------------------------------------------------------------------------
\* One call of create_indent_spans on an arbitrary line, under an arbitrary
\* configured indent width
\* ------------------------------------------------------------------------
\* the longest run of leading spaces
MaxSpaces == 5

\* the largest configured indent width (set_config_value accepts 1..16, and
\* 0 turns the indent guides off)
MaxIndentWidth == 4

\* what follows the leading spaces of a line
IndentTails == { <<>>, <<"a">>, <<"(", " ">> }

\* the caller's arguments: line and indent_width (the theme is the configured
\* one)
InitIndent ==
  /\ buffer \in { << [k \in 1..n |-> " "] \o t >> : n \in 0..MaxSpaces, t \in IndentTails }
  /\ editor_indent_width \in 0..MaxIndentWidth
  /\ InitSession
  /\ pc = "indent"
  /\ NoFrame

\* create_indent_spans returns its spans
IndentSpans ==
  /\ pc = "indent"
  /\ pc' = "indentdone"
  /\ text' = <<create_indent_spans(buffer[1], editor_indent_width, theme)>>
  /\ UNCHANGED <<buffer, line_idx, space_count, pos, tokens, current_state,
                 states_by_line, all_unmatched_brackets, scanned, scroll_y,
                 height, render_idx, replayed, editor_indent_width, session_vars>>

NextIndent == IndentSpans

SpecIndent == InitIndent /\ [][NextIndent]_vars

\* ------------------------------------------------------------------------
\* One call of count_leading_spaces on an arbitrary line
\* ------------------------------------------------------------------------
\* the characters of the lines: the space, the tab and a letter
SpaceChars == {" ", "\t", "a"}

\* the caller's argument: a line of at most MaxSpaces characters
InitCount ==
  /\ buffer \in {<<l>> : l \in StringsUpTo(SpaceChars, MaxSpaces)}
  /\ pc = "count"
  /\ NoFrame
  /\ editor_indent_width = indent_width
  /\ InitSession

\* count_leading_spaces returns; the caller keeps the count as space_count
CountLeadingSpaces ==
  /\ pc = "count"
  /\ pc' = "counted"
  /\ space_count' = count_leading_spaces(buffer[1])
  /\ UNCHANGED <<buffer, line_idx, pos, tokens, current_state, states_by_line,
                 all_unmatched_brackets, scanned, scroll_y, height, render_idx,
                 text, replayed, editor_indent_width, session_vars>>

NextCount == CountLeadingSpaces

SpecCount == InitCount /\ [][NextCount]_vars

\* C25: the count count_leading_spaces returns is the length of the longest
\* prefix of the line made only of the space character: the characters
\* before it are all spaces and the one after it, if any, is not a space.  A
\* tab ends the run: a line that starts with a tab has count 0.  A line of
\* spaces only has its length as count.
C25_LeadingSpaces ==
  pc = "counted" =>
    LET line == buffer[1]
        n == space_count
    IN /\ n \in 0..Len(line)
       /\ \A k \in 1..n : line[k] = " "
       /\ n < Len(line) => line[n + 1] # " "
       /\ (line # <<>> /\ line[1] = "\t") => n = 0
       /\ (\A k \in 1..Len(line) : line[k] = " ") => n = Len(line)

\* C25 witness: the count of a line of two spaces, a tab and a space is 2
C25_Witness ==
  /\ pc = "counted"
  /\ buffer[1] = <<" ", " ", "\t", " ">>
  /\ space_count = 2

\* ------------------------------------------------------------------------
\* Properties of one call of create_indent_spans (SpecIndent)
\* ------------------------------------------------------------------------
\* the texts of a sequence of spans, concatenated
SpanText(spans) == Concat([k \in 1..Len(spans) |-> spans[k].content])

\* a run of n spaces
Spaces(n) == [k \in 1..n |-> " "]

\* C16: for a line with at least one leading space and an indent width of at
\* least 1, the texts of the spans create_indent_spans returns, concatenated,
\* are the line's run of leading spaces.
C16_IndentText ==
  ( /\ pc = "indentdone"
    /\ count_leading_spaces(buffer[1]) >= 1
    /\ editor_indent_width >= 1 )
  => SpanText(text[1]) = Spaces(count_leading_spaces(buffer[1]))

\* C17: create_indent_spans returns no span when the indent width is 0 or
\* the line has no leading space; otherwise, for k * indent_width + r leading
\* spaces, it returns k spans of indent_width spaces, the i-th with the
\* background indent_colors[i mod palette length], then one span of r spaces
\* without background exactly when r > 0.
C17_IndentBlocks ==
  pc = "indentdone" =>
    LET n == count_leading_spaces(buffer[1])
        w == editor_indent_width
        spans == text[1]
        palette == theme.ui.indent_colors
    IN IF w = 0 \/ n = 0 THEN spans = <<>>
       ELSE LET k == n \div w
                r == n % w
            IN /\ Len(spans) = k + (IF r > 0 THEN 1 ELSE 0)
               /\ \A i \in 0..(k - 1) :
                    /\ spans[i + 1].content = Spaces(w)
                    /\ spans[i + 1].style.bg = palette[(i % Len(palette)) + 1]
               /\ r > 0 =>
                    /\ spans[k + 1].content = Spaces(r)
                    /\ spans[k + 1].style.bg = NoColor

\* ------------------------------------------------------------------------
\* Properties of one call of tokenize_with_state (SpecTok)
\* ------------------------------------------------------------------------
\* the contents of a token sequence, concatenated
TokenText(toks) == Concat([k \in 1..Len(toks) |-> toks[k].content])

\* open and close bracket of one kind
BracketPairs == { <<"(", ")">>, <<"[", "]">>, <<"{", "}">> }

\* the token a step has just appended
NewToken == tokens'[Len(tokens')]

\* a step of the tokenizer is about to be taken
AtToken == pc = "tok" /\ pos < Len(buffer[1])

\* C1: the contents of the tokens produced so far, concatenated in order,
\* are exactly the part of the content consumed so far; when
\* tokenize_with_state has returned they are the whole content, and an empty
\* content gave no token.
C1_Reconstruction ==
  pc \in {"tok", "tokdone"} =>
    /\ TokenText(tokens) = SubSeq(buffer[1], 1, pos)
    /\ (pc = "tokdone" => TokenText(tokens) = buffer[1])
    /\ (buffer[1] = <<>> => tokens = <<>>)

\* C1 witness: a returned call on a content with a two-byte character and a
\* string literal, split into several tokens
C1_Witness ==
  /\ pc = "tokdone"
  /\ Len(tokens) >= 2
  /\ ByteLen(buffer[1]) > Len(buffer[1])
  /\ \E k \in 1..Len(tokens) : tokens[k].token_type.kind = "String"

\* C3: a step that tokenises a close bracket pops exactly the top entry when
\* that entry is the open bracket of the same kind, and then the token is
\* Bracket{level: depth after the pop, is_matched: true}; otherwise the stack
\* is unchanged and the token is Bracket{level: depth, is_matched: false}.
\* The entries below the top are kept as they are.
C3_CloseBracket ==
  [][ (AtToken /\ buffer[1][pos + 1] \in CloseBrackets) =>
        LET ch == buffer[1][pos + 1]
            d == Len(current_state)
            top_matches ==
              d > 0 /\ <<current_state[d][1], ch>> \in BracketPairs
        IN /\ NewToken.content = <<ch>>
           /\ IF top_matches
              THEN /\ current_state' = SubSeq(current_state, 1, d - 1)
                   /\ NewToken.token_type = Bracket(d - 1, TRUE)
              ELSE /\ current_state' = current_state
                   /\ NewToken.token_type = Bracket(d, FALSE) ]_vars

\* C3 witness: a call that tokenised a matched close above a kept entry and
\* then an unmatched close (a different kind on top)
C3_Witness ==
  /\ pc = "tokdone"
  /\ current_state # <<>>
  /\ \E j, k \in 1..Len(tokens) :
       /\ j < k
       /\ tokens[j].content \in {<<")">>, <<"]">>, <<"}">>}
       /\ tokens[j].token_type.is_matched
       /\ tokens[k].content \in {<<")">>, <<"]">>, <<"}">>}
       /\ ~tokens[k].token_type.is_matched

\* C4: a step that tokenises an open bracket at depth d pushes exactly one
\* entry (char, line_idx, content_start_col + byte offset of the bracket)
\* and yields Bracket{level: d, is_matched: true}.
C4_OpenBracket ==
  [][ (AtToken /\ buffer[1][pos + 1] \in OpenBrackets) =>
        LET ch == buffer[1][pos + 1]
            d == Len(current_state)
        IN /\ current_state' =
                Append(current_state,
                       <<ch, line_idx, space_count + ByteIndex(buffer[1], pos)>>)
           /\ NewToken.content = <<ch>>
           /\ NewToken.start = ByteIndex(buffer[1], pos)
           /\ NewToken.token_type = Bracket(d, TRUE) ]_vars

\* C4 witness: an open bracket after a two-byte character, pushed on a
\* non-empty stack
C4_Witness ==
  /\ pc = "tokdone"
  /\ Len(current_state) >= 2
  /\ Len(tokens) = 2
  /\ tokens[2].token_type = Bracket(Len(current_state) - 1, TRUE)
  /\ tokens[2].start = 2
  /\ current_state[Len(current_state)] = <<"(", line_idx, space_count + 2>>

\* the number of consecutive backslashes that end right before index k and
\* start no earlier than index lo
RECURSIVE BackslashRun(_, _, _)
BackslashRun(content, k, lo) ==
  IF k - 1 >= lo /\ content[k - 1] = "\\"
  THEN 1 + BackslashRun(content, k - 1, lo)
  ELSE 0

\* the characters a quoted literal opened at index o covers: through the
\* first later quote that follows an even number of backslashes, or to the
\* end of the line
QuotedEnd(content, o, q) ==
  LET closing == { k \in (o + 1)..Len(content) :
                     content[k] = q /\ BackslashRun(content, k, o + 1) % 2 = 0 }
  IN IF closing = {} THEN Len(content)
     ELSE CHOOSE k \in closing : \A m \in closing : k <= m

\* C6: a step that starts at a double quote or at the quote of a character
\* literal yields one String token that covers every character up to the
\* closing quote (brackets included), a step that starts at `//` yields one
\* Comment token that covers the rest of the line, and both leave the
\* bracket stack unchanged; a step changes the stack only when its token is
\* a Bracket token.
C6_Suppression ==
  [][ AtToken =>
        LET c == buffer[1]
            j == pos + 1
            is_comment == c[j] = "/" /\ j < Len(c) /\ c[j + 1] = "/"
            is_lifetime == /\ c[j] = "'"
                           /\ j + 1 <= Len(c)
                           /\ IsWordChar(c[j + 1])
                           /\ (j + 2 > Len(c) \/ c[j + 2] # "'")
            is_quoted == c[j] = "\"" \/ (c[j] = "'" /\ ~is_lifetime)
        IN /\ (NewToken.token_type.kind # "Bracket" =>
                 current_state' = current_state)
           /\ (is_comment =>
                 /\ NewToken.token_type.kind = "Comment"
                 /\ pos' = Len(c)
                 /\ current_state' = current_state)
           /\ (is_quoted =>
                 /\ NewToken.token_type.kind = "String"
                 /\ pos' = QuotedEnd(c, j, c[j])
                 /\ current_state' = current_state) ]_vars

\* C6 witness: a returned call whose only token is a string literal holding
\* a bracket, from a non-empty starting stack
C6_Witness ==
  /\ pc = "tokdone"
  /\ Len(tokens) = 1
  /\ tokens[1].token_type.kind = "String"
  /\ tokens[1].content = <<"\"", "(", "\"">>
  /\ current_state # <<>>

\* C13: every scanner step takes at least one character from the iterator
\* and never moves past the end of the content, and every call of
\* tokenize_with_state returns.
C13_Terminates ==
  /\ [][ (pc = "tok" /\ tokens' # tokens) =>
            /\ pos' > pos
            /\ pos' <= Len(buffer[1])
            /\ Len(tokens') = Len(tokens) + 1
       ]_vars
  /\ <>(pc = "tokdone")

\* C13 witness: the call has returned on a content that is an unterminated
\* string ending in a backslash, after a mismatched close bracket
C13_Witness ==
  /\ pc = "tokdone"
  /\ buffer[1] = <<"]", "\"", "\\">>
  /\ Len(tokens) = 2
  /\ tokens[1].token_type = Bracket(Len(current_state), FALSE)
  /\ tokens[2].token_type = TT("String")

\* C14: the tokens produced so far tile the consumed part of the content:
\* the first starts at byte 0, every token is non-empty, each ends where the
\* next starts, the last ends at the iterator's byte offset (the content's
\* byte length once the call has returned), and each token's content is the
\* slice of the content between its start and its end.
C14_Tiling ==
  pc \in {"tok", "tokdone"} =>
    /\ tokens # <<>> => tokens[1].start = 0
    /\ \A k \in 1..Len(tokens) :
         /\ tokens[k].start < tokens[k].end
         /\ tokens[k].end <= ByteLen(buffer[1])
         /\ tokens[k].content = Slice(buffer[1], tokens[k].start, tokens[k].end)
         /\ k < Len(tokens) => tokens[k].end = tokens[k + 1].start
    /\ tokens # <<>> => tokens[Len(tokens)].end = ByteIndex(buffer[1], pos)
    /\ (pc = "tokdone" /\ tokens # <<>>) =>
         tokens[Len(tokens)].end = ByteLen(buffer[1])
    /\ (pc = "tokdone" /\ tokens = <<>>) => buffer[1] = <<>>

\* C14 witness: a returned call whose first token is a Macro over a two-byte
\* letter and its `!`, followed by another token
C14_Witness ==
  /\ pc = "tokdone"
  /\ Len(tokens) = 2
  /\ tokens[1].token_type = TT("Macro")
  /\ tokens[1].end = 3
  /\ tokens[2].start = 3

\* the punctuation characters the tokenizer's rule for symbols lists
PunctuationSet ==
  {";", ",", ".", "=", "+", "-", "*", "/", "%", "&", "|", "^", "!", "?", "<",
   ">", "#", "@", "$", ":"}

\* the scanner is about to take a character that starts no comment, string,
\* character literal, bracket, number, word, whitespace run or `::`
AtOtherChar ==
  /\ AtToken
  /\ LET ch == buffer[1][pos + 1]
         next == IF pos + 1 < Len(buffer[1]) THEN buffer[1][pos + 2] ELSE None
     IN /\ ch \notin {"\"", "'"} \cup OpenBrackets \cup CloseBrackets
        /\ ~is_ascii_digit(ch)
        /\ ~IsWordChar(ch)
        /\ ~is_whitespace(ch)
        /\ ~(ch = "/" /\ next = "/")
        /\ ~(ch = ":" /\ next = ":")

\* C21: a step that takes a single character that is not a quote, bracket,
\* digit, word character or whitespace gives a one-character token that is
\* Symbol exactly when the character is in the punctuation set, and is
\* Identifier for any other such character (`~`, a backslash).
C21_SymbolOrIdentifier ==
  [][ AtOtherChar =>
        LET ch == buffer[1][pos + 1] IN
        /\ NewToken.content = <<ch>>
        /\ pos' = pos + 1
        /\ NewToken.token_type =
             IF ch \in PunctuationSet THEN TT("Symbol") ELSE TT("Identifier")
    ]_vars

\* ------------------------------------------------------------------------
\* Classification of words (SpecWord)
\* ------------------------------------------------------------------------
\* the scanner is about to take an identifier run: a word character that is
\* not an ASCII digit, at a token boundary
AtWord ==
  /\ AtToken
  /\ IsWordChar(buffer[1][pos + 1])
  /\ ~is_ascii_digit(buffer[1][pos + 1])

\* the character position where the run of word characters that starts at
\* pos ends
RunEnd ==
  CHOOSE e \in pos..Len(buffer[1]) :
    /\ \A k \in (pos + 1)..e : IsWordChar(buffer[1][k])
    /\ e < Len(buffer[1]) => ~IsWordChar(buffer[1][e + 1])

\* the identifier run that starts at pos
Run == SubSeq(buffer[1], pos + 1, RunEnd)

\* the character right after the run, None at the end of the content
AfterRun == IF RunEnd < Len(buffer[1]) THEN buffer[1][RunEnd + 1] ELSE None

\* the first character after the run that is not whitespace, None if there
\* is none
AfterRunAndSpace ==
  LET rest == {k \in (RunEnd + 1)..Len(buffer[1]) : ~is_whitespace(buffer[1][k])}
  IN IF rest = {} THEN None
     ELSE buffer[1][CHOOSE k \in rest : \A j \in rest : k <= j]

\* C18: a step that takes an identifier run with `!` right after it gives one
\* Macro token, the run and the `!`, whatever follows the `!`; a step that
\* takes a non-keyword run with `(` right after it gives a Function token
\* that is the run alone.
C18_MacroAndFunction ==
  [][ AtWord =>
        /\ AfterRun = "!" =>
             /\ NewToken.token_type = TT("Macro")
             /\ NewToken.content = Append(Run, "!")
             /\ pos' = RunEnd + 1
        /\ (AfterRun = "(" /\ Run \notin RUST_KEYWORDS) =>
             /\ NewToken.token_type = TT("Function")
             /\ NewToken.content = Run
             /\ pos' = RunEnd
    ]_vars

\* C18 witness: the content  f!(  has been tokenised as the Macro  f!  and an
\* open bracket
C18_Witness ==
  /\ pc = "tokdone"
  /\ buffer[1] = <<"f", "!", "(">>
  /\ Len(tokens) = 2
  /\ tokens[1].token_type = TT("Macro")
  /\ tokens[1].content = <<"f", "!">>
  /\ tokens[2].token_type = Bracket(0, TRUE)

\* C19 as stated: a step that takes a non-keyword run whose first following
\* character that is not whitespace is `(` gives a Function token.
C19_FunctionAcrossSpace ==
  [][ (AtWord /\ Run \notin RUST_KEYWORDS /\ AfterRunAndSpace = "(") =>
        NewToken.token_type = TT("Function")
    ]_vars

\* C19 amended: a step that takes a non-keyword run gives a Function token
\* exactly when the character right after the run is `(`; with whitespace
\* between the run and the `(` the token is Type or Identifier.
C19_FunctionImmediate ==
  [][ (AtWord /\ Run \notin RUST_KEYWORDS) =>
        /\ NewToken.token_type = TT("Function") <=> AfterRun = "("
        /\ (is_whitespace(AfterRun) /\ AfterRunAndSpace = "(") =>
             /\ NewToken.token_type \in {TT("Type"), TT("Identifier")}
             /\ NewToken.content = Run
    ]_vars

\* C19 witness: the content  f (  has been tokenised as the Identifier  f ,
\* whitespace and an open bracket
C19_Witness ==
  /\ pc = "tokdone"
  /\ buffer[1] = <<"f", " ", "(">>
  /\ Len(tokens) = 3
  /\ tokens[1].token_type = TT("Identifier")
  /\ tokens[2].token_type = TT("Whitespace")
  /\ tokens[3].token_type = Bracket(0, TRUE)

\* C20: a step that takes an identifier run that is a keyword gives a Keyword
\* token, whatever character follows the run.
C20_KeywordFirst ==
  [][ (AtWord /\ Run \in RUST_KEYWORDS) => NewToken.token_type = TT("Keyword")
    ]_vars

\* C32: a step that takes a run that is not a keyword and has neither `(`
\* nor `!` right after it gives a Type token when the run's first character
\* is an uppercase ASCII letter and an Identifier token otherwise, the token
\* being the run; a step that takes such an uppercase-initial run with `(`
\* right after it gives a Function token, not a Type.
C32_TypeOrIdentifier ==
  [][ (AtWord /\ Run \notin RUST_KEYWORDS) =>
        /\ AfterRun \notin {"(", "!"} =>
             /\ NewToken.content = Run
             /\ NewToken.token_type =
                  IF Run[1] \in AsciiUpper THEN TT("Type") ELSE TT("Identifier")
        /\ (AfterRun = "(" /\ Run[1] \in AsciiUpper) =>
             NewToken.token_type = TT("Function")
    ]_vars

\* C32 witness: the content  A(Af  has been tokenised as the Function  A , an
\* open bracket and the Type  Af
C32_Witness ==
  /\ pc = "tokdone"
  /\ buffer[1] = <<"A", "(", "A", "f">>
  /\ Len(tokens) = 3
  /\ tokens[1].token_type = TT("Function")
  /\ tokens[3].token_type = TT("Type")
  /\ tokens[3].content = <<"A", "f">>

\* ------------------------------------------------------------------------
\* Strings, character literals, lifetimes and comments (SpecQuote)
\* ------------------------------------------------------------------------
RECURSIVE IsEscaped(_, _, _)
\* the character at index k of a literal opened at index o is escaped: the
\* character before it is a backslash inside the literal that is not escaped
\* itself
IsEscaped(content, o, k) ==
  /\ k - 1 > o
  /\ content[k - 1] = "\\"
  /\ ~IsEscaped(content, o, k - 1)

\* the indices after o that hold the quote q unescaped
ClosingQuotes(content, o, q) ==
  { k \in (o + 1)..Len(content) : content[k] = q /\ ~IsEscaped(content, o, k) }

\* the literal opened by the quote at index o: through its first unescaped
\* closing quote, or to the end of the line
Literal(content, o) ==
  LET closing == ClosingQuotes(content, o, content[o])
  IN IF closing = {} THEN SubSeq(content, o, Len(content))
     ELSE SubSeq(content, o, CHOOSE k \in closing : \A m \in closing : k <= m)

\* C26: a step that starts at a `"` gives one String token that runs from
\* the `"` through the first later `"` that no backslash escapes (a backslash
\* escapes the character after it, be it a backslash or a quote), or to the
\* end of the line when there is none; the token holds the opening quote
\* and, when there is one, the closing quote, and the scanner goes on right
\* after it.
C26_StringToken ==
  [][ (AtToken /\ buffer[1][pos + 1] = "\"") =>
        LET c == buffer[1]
            lit == Literal(c, pos + 1)
        IN /\ Len(tokens') = Len(tokens) + 1
           /\ NewToken.token_type = TT("String")
           /\ NewToken.content = lit
           /\ NewToken.content[1] = "\""
           /\ ClosingQuotes(c, pos + 1, "\"") # {} =>
                /\ Len(lit) >= 2
                /\ lit[Len(lit)] = "\""
           /\ NewToken.start = ByteIndex(c, pos)
           /\ NewToken.end = ByteIndex(c, pos + Len(lit))
           /\ pos' = pos + Len(lit)
    ]_vars

\* C26 witness: the content  "\""a  has been tokenised as the String  "\""
\* (an escaped quote inside) and the word  a
C26_Witness ==
  /\ pc = "tokdone"
  /\ buffer[1] = <<"\"", "\\", "\"", "\"", "a">>
  /\ Len(tokens) = 2
  /\ tokens[1].token_type = TT("String")
  /\ tokens[1].content = <<"\"", "\\", "\"", "\"">>

\* the index of the last character of the run of word characters that
\* starts at index k (k - 1 when the character at k is not a word character)
WordRunEnd(content, k) ==
  CHOOSE e \in (k - 1)..Len(content) :
    /\ \A m \in k..e : IsWordChar(content[m])
    /\ e < Len(content) => ~IsWordChar(content[e + 1])

\* C28: a step that starts at a `'` followed by a word character that is not
\* itself followed by `'` gives an Identifier token, the `'` and the run of
\* word characters after it; a step that starts at any other `'` gives a
\* String token scanned like a double-quoted string with `'` as the
\* delimiter.  Neither changes the BracketState, so a bracket inside a
\* character literal such as '(' does not.
C28_LifetimeOrCharLiteral ==
  [][ (AtToken /\ buffer[1][pos + 1] = "'") =>
        LET c == buffer[1]
            j == pos + 1
            c1 == IF j + 1 <= Len(c) THEN c[j + 1] ELSE None
            c2 == IF j + 2 <= Len(c) THEN c[j + 2] ELSE None
            is_lifetime == c1 # None /\ IsWordChar(c1) /\ c2 # "'"
        IN /\ Len(tokens') = Len(tokens) + 1
           /\ current_state' = current_state
           /\ IF is_lifetime
              THEN /\ NewToken.token_type = TT("Identifier")
                   /\ NewToken.content = SubSeq(c, j, WordRunEnd(c, j + 1))
                   /\ pos' = WordRunEnd(c, j + 1)
              ELSE /\ NewToken.token_type = TT("String")
                   /\ NewToken.content = Literal(c, j)
                   /\ pos' = pos + Len(Literal(c, j))
    ]_vars

\* C28 witness: the content  '(''a  has been tokenised as the String  '('
\* and the Identifier  'a , and the BracketState still is the non-empty one
\* the call started from
C28_Witness ==
  /\ pc = "tokdone"
  /\ buffer[1] = <<"'", "(", "'", "'", "a">>
  /\ Len(tokens) = 2
  /\ tokens[1].token_type = TT("String")
  /\ tokens[1].content = <<"'", "(", "'">>
  /\ tokens[2].token_type = TT("Identifier")
  /\ tokens[2].content = <<"'", "a">>
  /\ current_state = << <<"(", 0, 0>> >>

\* C29: a step that starts at `//` gives a Comment token that holds the rest
\* of the line, so a Comment token is always the last token of its line and
\* ends at the end of the content; a step that starts at a `/` that is not
\* followed by `/` gives the Symbol token `/`.
C29_CommentToEndOfLine ==
  /\ [](pc \in {"tok", "tokdone"} =>
          \A k \in 1..Len(tokens) :
            tokens[k].token_type = TT("Comment") =>
              /\ k = Len(tokens)
              /\ tokens[k].end = ByteLen(buffer[1])
              /\ pos = Len(buffer[1]))
  /\ [][ (AtToken /\ buffer[1][pos + 1] = "/") =>
           LET c == buffer[1]
               j == pos + 1
           IN IF j < Len(c) /\ c[j + 1] = "/"
              THEN /\ NewToken.token_type = TT("Comment")
                   /\ NewToken.content = SubSeq(c, j, Len(c))
                   /\ pos' = Len(c)
              ELSE /\ NewToken.token_type = TT("Symbol")
                   /\ NewToken.content = <<"/">>
                   /\ pos' = pos + 1
       ]_vars

\* C29 witness: the content  /a//"  has been tokenised as the Symbol  / , the
\* word  a  and the Comment  //"  whose quote opens no string
C29_Witness ==
  /\ pc = "tokdone"
  /\ buffer[1] = <<"/", "a", "/", "/", "\"">>
  /\ Len(tokens) = 3
  /\ tokens[1].token_type = TT("Symbol")
  /\ tokens[3].token_type = TT("Comment")
  /\ tokens[3].content = <<"/", "/", "\"">>

\* ------------------------------------------------------------------------
\* Colons (SpecPath)
\* ------------------------------------------------------------------------
RECURSIVE ColonPairs(_, _)
\* the number of pairs of colons of a content from index k on, pairing from
\* left to right
ColonPairs(content, k) ==
  IF k >= Len(content) THEN 0
  ELSE IF content[k] = ":" /\ content[k + 1] = ":"
       THEN 1 + ColonPairs(content, k + 2)
       ELSE ColonPairs(content, k + 1)

\* the content is a path: words separated by `::`, every colon in a run of
\* exactly two between two word characters
IsPath(content) ==
  /\ content # <<>>
  /\ \A k \in 1..Len(content) :
       \/ IsWordChar(content[k])
       \/ /\ content[k] = ":"
          /\ \E o \in {k - 1, k} :
               /\ o >= 2
               /\ o + 2 <= Len(content)
               /\ IsWordChar(content[o - 1])
               /\ content[o] = ":"
               /\ content[o + 1] = ":"
               /\ IsWordChar(content[o + 2])

\* the number of `::` separators of a path
Separators(content) ==
  Cardinality({k \in 1..Len(content) : content[k] = ":"}) \div 2

\* the number of Operator tokens of a token sequence
Operators(toks) ==
  Cardinality({k \in 1..Len(toks) : toks[k].token_type = TT("Operator")})

\* C30: a step that starts at a colon followed by a colon gives the Operator
\* token `::`, and a step that starts at any other colon gives the Symbol
\* token `:`; every Operator token is `::`; the tokens of a content are as
\* many Operator tokens as the content has pairs of colons, paired from left
\* to right, and for a path with k `::` separators these are exactly k.
C30_DoubleColon ==
  /\ [](pc \in {"tok", "tokdone"} =>
          /\ \A k \in 1..Len(tokens) :
               tokens[k].token_type = TT("Operator") =>
                 tokens[k].content = <<":", ":">>
          /\ pc = "tokdone" =>
               /\ Operators(tokens) = ColonPairs(buffer[1], 1)
               /\ IsPath(buffer[1]) => Operators(tokens) = Separators(buffer[1]))
  /\ [][ (AtToken /\ buffer[1][pos + 1] = ":") =>
           LET c == buffer[1]
               j == pos + 1
           IN IF j < Len(c) /\ c[j + 1] = ":"
              THEN /\ NewToken.token_type = TT("Operator")
                   /\ NewToken.content = <<":", ":">>
                   /\ pos' = pos + 2
              ELSE /\ NewToken.token_type = TT("Symbol")
                   /\ NewToken.content = <<":">>
                   /\ pos' = pos + 1
       ]_vars

\* C30 witness: the path  a::a::a  has been tokenised into five tokens, two
\* of them Operator tokens
C30_Witness ==
  /\ pc = "tokdone"
  /\ buffer[1] = <<"a", ":", ":", "a", ":", ":", "a">>
  /\ IsPath(buffer[1])
  /\ Len(tokens) = 5
  /\ Operators(tokens) = 2
  /\ tokens[2].token_type = TT("Operator")
  /\ tokens[4].token_type = TT("Operator")

\* ------------------------------------------------------------------------
\* Numbers (SpecNum)
\* ------------------------------------------------------------------------
\* the character position where the run of ASCII digits that starts at pos
\* ends
DigitRunEnd ==
  CHOOSE e \in pos..Len(buffer[1]) :
    /\ \A k \in (pos + 1)..e : is_ascii_digit(buffer[1][k])
    /\ e < Len(buffer[1]) => ~is_ascii_digit(buffer[1][e + 1])

\* C31: a step that starts at an ASCII digit gives one Number token that is
\* the maximal run of digits from there, so the token holds digits only: no
\* sign, decimal point or exponent letter; a step that starts at another
\* word character gives one token that is not a Number and holds the whole
\* run of word characters, its digits included; and no step that starts at
\* any other character gives a Number.
C31_NumberIsDigitRun ==
  [][ AtToken =>
        LET ch == buffer[1][pos + 1] IN
        /\ is_ascii_digit(ch) =>
             /\ NewToken.token_type = TT("Number")
             /\ NewToken.content = SubSeq(buffer[1], pos + 1, DigitRunEnd)
             /\ pos' = DigitRunEnd
             /\ Len(tokens') = Len(tokens) + 1
             /\ \A k \in 1..Len(NewToken.content) :
                  NewToken.content[k] \in AsciiDigits
        /\ AtWord =>
             /\ NewToken.token_type # TT("Number")
             /\ SubSeq(NewToken.content, 1, Len(Run)) = Run
             /\ pos' >= RunEnd
        /\ ~is_ascii_digit(ch) => NewToken.token_type # TT("Number")
    ]_vars

\* C31 witness: the content  -1.e1  has been tokenised as the Symbol  - , the
\* Number  1 , the Symbol  .  and the Identifier  e1
C31_Witness ==
  /\ pc = "tokdone"
  /\ buffer[1] = <<"-", "1", ".", "e", "1">>
  /\ Len(tokens) = 4
  /\ tokens[1].token_type = TT("Symbol")
  /\ tokens[2].token_type = TT("Number")
  /\ tokens[2].content = <<"1">>
  /\ tokens[3].token_type = TT("Symbol")
  /\ tokens[4].token_type = TT("Identifier")
  /\ tokens[4].content = <<"e", "1">>

\* ------------------------------------------------------------------------
\* Properties of the whole-buffer scan and of the renderer (Spec)
\* ------------------------------------------------------------------------
\* the Bracket tokens of a line's tokens, each with its character, its line
\* and its column in the line
Brackets(toks, i, sc) ==
  LET bs == SelectSeq(toks, LAMBDA t : t.token_type.kind = "Bracket")
  IN [k \in 1..Len(bs) |->
        [ch |-> bs[k].content[1], line |-> i, col |-> sc + bs[k].start,
         level |-> bs[k].token_type.level,
         is_matched |-> bs[k].token_type.is_matched]]

\* the Bracket tokens the scan produced for lines 0 .. n-1, in scan order
ScannedBrackets(n) ==
  Concat([k \in 1..n |->
            Brackets(scanned[k], k - 1, count_leading_spaces(buffer[k]))])

\* all the Bracket tokens the scan has produced so far
BracketsSoFar ==
  ScannedBrackets(Len(scanned)) \o Brackets(tokens, line_idx, space_count)

RECURSIVE Unpopped(_, _)
\* the open brackets of a sequence of Bracket tokens that no later matched
\* close has popped, added to the entries of acc
Unpopped(bs, acc) ==
  IF bs = <<>> THEN acc
  ELSE LET b == Head(bs) IN
       IF b.ch \in OpenBrackets
       THEN Unpopped(Tail(bs), Append(acc, <<b.ch, b.line, b.col>>))
       ELSE IF b.is_matched
            THEN Unpopped(Tail(bs), SubSeq(acc, 1, Len(acc) - 1))
            ELSE Unpopped(Tail(bs), acc)

\* the character of a line at a byte column
CharAtCol(line_str, col) == line_str[CharPos(line_str, col) + 1]

\* C2: at every point of the scan the stack is the sequence of the open
\* brackets tokenised so far that no matched close has popped, each entry
\* holds the character found in the buffer at its (line, column), and the
\* entries strictly increase in (line, column) from bottom to top.
C2_StackIsOpenBrackets ==
  pc \in {"scan", "render"} =>
    /\ current_state = Unpopped(BracketsSoFar, <<>>)
    /\ \A k \in 1..Len(current_state) :
         LET e == current_state[k] IN
         /\ e[1] \in OpenBrackets
         /\ e[2] < Len(buffer)
         /\ e[3] < ByteLen(buffer[e[2] + 1])
         /\ CharAtCol(buffer[e[2] + 1], e[3]) = e[1]
    /\ \A k \in 1..(Len(current_state) - 1) :
         LET a == current_state[k]
             b == current_state[k + 1]
         IN a[2] < b[2] \/ (a[2] = b[2] /\ a[3] < b[3])

\* C2 witness: during the scan of the second line the stack holds an open
\* bracket of the first line below an indented open bracket of the second
C2_Witness ==
  /\ pc = "scan"
  /\ line_idx = 1
  /\ space_count > 0
  /\ Len(current_state) = 2
  /\ current_state[1][2] = 0
  /\ current_state[2][2] = 1
  /\ current_state[2][3] = space_count

\* C5: after the scan of all lines the unmatched-position set is exactly the
\* positions (line, leading spaces + token start) of the close-bracket
\* tokens flagged is_matched = false together with the (line, column) of the
\* entries left on the stack; every position in it holds a bracket.
C5_UnmatchedSet ==
  pc = "render" =>
    LET bs == ScannedBrackets(Len(buffer))
        closes == { <<bs[k].line, bs[k].col>> :
                      k \in { j \in 1..Len(bs) :
                                bs[j].ch \in CloseBrackets /\ ~bs[j].is_matched } }
        opens == { <<current_state[k][2], current_state[k][3]>> :
                     k \in 1..Len(current_state) }
    IN /\ all_unmatched_brackets = closes \cup opens
       /\ \A p \in all_unmatched_brackets :
            /\ p[1] < Len(buffer)
            /\ p[2] < ByteLen(buffer[p[1] + 1])
            /\ CharAtCol(buffer[p[1] + 1], p[2]) \in OpenBrackets \cup CloseBrackets

\* C5 witness: a scanned buffer with an indented unmatched close and an open
\* bracket that is never closed
C5_Witness ==
  /\ pc = "render"
  /\ Cardinality(all_unmatched_brackets) = 2
  /\ current_state # <<>>
  /\ \E p \in all_unmatched_brackets :
       /\ p[2] > 0
       /\ CharAtCol(buffer[p[1] + 1], p[2]) \in CloseBrackets

RECURSIVE WellNested(_)
\* a sequence of bracket characters is well nested: it is empty, or an open
\* bracket, a well-nested sequence, the close bracket of the same kind and a
\* well-nested sequence
WellNested(cs) ==
  \/ cs = <<>>
  \/ \E k \in 2..Len(cs) :
       /\ <<cs[1], cs[k]>> \in BracketPairs
       /\ WellNested(SubSeq(cs, 2, k - 1))
       /\ WellNested(SubSeq(cs, k + 1, Len(cs)))

\* the characters of a sequence of Bracket tokens
BracketChars(bs) == [k \in 1..Len(bs) |-> bs[k].ch]

\* C7: when the brackets the scan tokenised (those outside strings and
\* comments) are well nested across the lines, every Bracket token has
\* is_matched = true, the stack is empty after the last line and the
\* unmatched-position set is empty.
C7_WellNestedIsClean ==
  (pc = "render" /\ WellNested(BracketChars(ScannedBrackets(Len(buffer))))) =>
    /\ \A k \in 1..Len(ScannedBrackets(Len(buffer))) :
         ScannedBrackets(Len(buffer))[k].is_matched
    /\ current_state = <<>>
    /\ all_unmatched_brackets = {}

\* C7 witness: a scanned well-nested buffer whose open bracket is closed on
\* the next line
C7_Witness ==
  /\ pc = "render"
  /\ Len(buffer) = 2
  /\ LET bs == ScannedBrackets(2) IN
     /\ Len(bs) = 2
     /\ bs[1].line = 0
     /\ bs[2].line = 1
     /\ WellNested(BracketChars(bs))
  /\ all_unmatched_brackets = {}

\* C8: the cache has one entry per line scanned plus one, N + 1 after the
\* scan; entry 0 is the empty state; entry i is the stack left by the
\* brackets of lines 0 .. i-1; and when line i is about to be tokenised the
\* running state equals entry i.
C8_CachePerLine ==
  pc \in {"scan", "render"} =>
    /\ Len(states_by_line) = line_idx + 1
    /\ (pc = "render" => Len(states_by_line) = Len(buffer) + 1)
    /\ states_by_line[1] = BracketState_new
    /\ \A i \in 0..line_idx :
         states_by_line[i + 1] = Unpopped(ScannedBrackets(i), <<>>)
    /\ (pc = "scan" /\ line_idx < Len(buffer) /\ pos = 0 /\ tokens = <<>>) =>
         current_state = states_by_line[line_idx + 1]

\* C8 witness: a scanned two-line buffer whose cache holds the empty state, a
\* state of depth 1 before line 1 and the empty state after it
C8_Witness ==
  /\ pc = "render"
  /\ Len(buffer) = 2
  /\ Len(states_by_line) = 3
  /\ Len(states_by_line[2]) = 1
  /\ states_by_line[3] = <<>>

\* the level and the flag of the Bracket tokens of a token sequence
BracketTypes(toks) ==
  LET bs == SelectSeq(toks, LAMBDA t : t.token_type.kind = "Bracket")
  IN [k \in 1..Len(bs) |-> <<bs[k].content, bs[k].start, bs[k].token_type>>]

Shape(toks) ==
  [k \in 1..Len(toks) |-> <<toks[k].start, toks[k].end, toks[k].token_type.kind>>]

\* the shape of the tokens of a line tokenised on its own: as line 0 of a
\* one-line buffer, from an empty BracketState
ShapeAlone(line_str) ==
  Shape(tokenize_with_state(content_part(line_str), 0, 0, BracketState_new).tokens)

\* C15: during the scan, the token boundaries and token kinds of every line
\* scanned so far, and of the part of the current line scanned so far, are
\* those the line gets when it is tokenised on its own; they do not depend on
\* the lines before it nor on the BracketState carried into it.
C15_LineLocal ==
  pc = "scan" =>
    /\ \A k \in 1..Len(scanned) : Shape(scanned[k]) = ShapeAlone(buffer[k])
    /\ line_idx < Len(buffer) =>
         Shape(tokens) = SubSeq(ShapeAlone(buffer[line_idx + 1]), 1, Len(tokens))

\* C15 witness: line 0 ends inside an unterminated string holding an open
\* bracket, and the close bracket on line 1 has been scanned as a Bracket
\* token, unmatched
C15_Witness ==
  /\ pc = "scan"
  /\ Len(scanned) = 2
  /\ scanned[1] # <<>>
  /\ scanned[1][Len(scanned[1])].token_type = TT("String")
  /\ buffer[1] = <<"\"", "(">>
  /\ Len(scanned[2]) = 1
  /\ scanned[2][1].content = <<")">>
  /\ scanned[2][1].token_type = Bracket(0, FALSE)

RECURSIVE PairsOf(_, _, _)
\* the pairs of a sequence of Bracket tokens: each matched close with the
\* open bracket on top of the open brackets not yet popped (acc) when the
\* close is reached
PairsOf(bs, acc, pairs) ==
  IF bs = <<>> THEN pairs
  ELSE LET b == Head(bs) IN
       IF b.ch \in OpenBrackets
       THEN PairsOf(Tail(bs), Append(acc, b), pairs)
       ELSE IF b.is_matched /\ acc # <<>>
            THEN PairsOf(Tail(bs), SubSeq(acc, 1, Len(acc) - 1),
                         pairs \cup {<<acc[Len(acc)], b>>})
            ELSE PairsOf(Tail(bs), acc, pairs)

\* the span the renderer made for the bracket b, in the n-th rendered line
BracketSpan(n, b) ==
  LET toks == replayed[n].tokens
      sc == count_leading_spaces(buffer[b.line + 1])
      k == CHOOSE j \in 1..Len(toks) :
             toks[j].token_type.kind = "Bracket" /\ sc + toks[j].start = b.col
  IN text[n][Len(text[n]) - Len(toks) + k]

\* the scan has just tokenised a close bracket that matched
MatchedCloseStep ==
  /\ pc = "scan"
  /\ Len(tokens') = Len(tokens) + 1
  /\ NewToken.token_type.kind = "Bracket"
  /\ NewToken.content[1] \in CloseBrackets
  /\ NewToken.token_type.is_matched

Closes(bs) == { k \in 1..Len(bs) : bs[k].ch \in CloseBrackets }

\* C34: when the scan of all lines leaves the unmatched-position set empty,
\* the brackets the scan tokenised (those outside strings and comments) are
\* well nested across the lines: every close bracket is paired with the most
\* recent open bracket not yet closed, which is of its kind, and no open
\* bracket is left on the stack.
C34_CleanIsWellNested ==
  (pc = "render" /\ all_unmatched_brackets = {}) =>
    LET bs == ScannedBrackets(Len(buffer))
        pairs == PairsOf(bs, <<>>, {})
    IN /\ WellNested(BracketChars(bs))
       /\ current_state = <<>>
       /\ \A k \in Closes(bs) :
            \E p \in pairs : p[2] = bs[k] /\ <<p[1].ch, p[2].ch>> \in BracketPairs
       /\ Cardinality(pairs) = Cardinality(Closes(bs))
       /\ Len(bs) = 2 * Cardinality(pairs)

\* C34 witness: the scan of a buffer with an open bracket on the first line
\* and its close, indented, on the second left the set empty
C34_Witness ==
  /\ pc = "render"
  /\ all_unmatched_brackets = {}
  /\ Len(buffer) = 2
  /\ buffer[1] = <<"(">>
  /\ buffer[2] = <<" ", ")">>

\* ------------------------------------------------------------------------
\* Properties of the scan of one line of brackets (SpecBrackets)
\* ------------------------------------------------------------------------
\* the line of m `(` followed by k `)`
OpensThenCloses(m, k) == [j \in 1..(m + k) |-> IF j <= m THEN "(" ELSE ")"]

\* every token of a token sequence is a Bracket token with is_matched = true
AllMatched(toks) ==
  \A j \in 1..Len(toks) :
    toks[j].token_type.kind = "Bracket" /\ toks[j].token_type.is_matched

\* C22 as stated: after the scan of the one-line buffer  ((()  no token has
\* is_matched = false, and the unmatched-position set holds one position,
\* that of the last `(` of the line.
C22_TrailingOpenReported ==
  (pc = "render" /\ buffer = <<OpensThenCloses(3, 1)>>) =>
    /\ AllMatched(scanned[1])
    /\ all_unmatched_brackets = { <<0, 2>> }

\* C22 amended: after the scan of a one-line buffer of m `(` followed by
\* k <= m `)`, no token has is_matched = false, the closes have popped the
\* last k opens, the stack holds the first m - k opens, and the
\* leftover-stack step has put exactly their positions (0, 0) .. (0, m-k-1)
\* into the unmatched-position set; for  ((()  these are the first two `(`,
\* and the last `(` is the one the `)` matches.
C22_FirstOpensReported ==
  pc = "render" =>
    \A m \in 0..Len(buffer[1]) : \A k \in 0..m :
      buffer = <<OpensThenCloses(m, k)>> =>
        /\ AllMatched(scanned[1])
        /\ current_state = [j \in 1..(m - k) |-> <<"(", 0, j - 1>>]
        /\ all_unmatched_brackets = { <<0, c>> : c \in 0..(m - k - 1) }

\* C22 witness: the buffer  ((()  has been scanned; the `)` matched the last
\* `(` at level 2 and the set holds the positions of the first two `(`
C22_Witness ==
  /\ pc = "render"
  /\ buffer = <<OpensThenCloses(3, 1)>>
  /\ scanned[1][4].token_type = Bracket(2, TRUE)
  /\ all_unmatched_brackets = { <<0, 0>>, <<0, 1>> }

\* a line of n open brackets followed by their n close brackets in reverse
\* order
IsNested(line) ==
  /\ Len(line) % 2 = 0
  /\ \A j \in 1..(Len(line) \div 2) :
       /\ line[j] \in OpenBrackets
       /\ <<line[j], line[Len(line) + 1 - j]>> \in BracketPairs

\* C23: the tokens of a line of n open brackets followed by their n close
\* brackets in reverse order, tokenised from an empty state, have the levels
\* 0, 1, .., n-1 for the opens and n-1, .., 1, 0 for the closes, all have
\* is_matched = true, and the stack is empty afterwards.
C23_NestedLevels ==
  (pc \in {"scan", "render"} /\ Len(scanned) = 1 /\ IsNested(buffer[1])) =>
    LET n == Len(buffer[1]) \div 2
        toks == scanned[1]
    IN /\ Len(toks) = 2 * n
       /\ \A j \in 1..n :
            /\ toks[j].token_type = Bracket(j - 1, TRUE)
            /\ toks[2 * n + 1 - j].token_type = Bracket(j - 1, TRUE)
       /\ current_state = <<>>

\* C23 witness: the line  ([{}])  has been tokenised, its innermost pair at
\* level 2
C23_Witness ==
  /\ pc = "scan"
  /\ Len(scanned) = 1
  /\ buffer[1] = <<"(", "[", "{", "}", "]", ")">>
  /\ scanned[1][3].token_type = Bracket(2, TRUE)
  /\ scanned[1][4].token_type = Bracket(2, TRUE)
  /\ current_state = <<>>

\* ------------------------------------------------------------------------
\* Frames and edits (SpecEdit)
\* ------------------------------------------------------------------------
RECURSIVE ScanLines(_, _, _)
\* a scan of the lines i.. of a buffer in one piece, from the stack st: the
\* stack after each line, the positions of the unmatched closes and the
\* stack at the end
ScanLines(buf, i, st) ==
  IF i >= Len(buf) THEN [after |-> <<>>, closes |-> {}, stack |-> st]
  ELSE LET sc == count_leading_spaces(buf[i + 1])
           r == tokenize_with_state(content_part(buf[i + 1]), i, sc, st)
           rest == ScanLines(buf, i + 1, r.stack)
           here == { <<i, sc + r.tokens[k].start>> :
                       k \in {j \in 1..Len(r.tokens) :
                                /\ r.tokens[j].token_type.kind = "Bracket"
                                /\ ~r.tokens[j].token_type.is_matched} }
       IN [after |-> <<r.stack>> \o rest.after,
           closes |-> here \cup rest.closes,
           stack |-> rest.stack]

\* the per-line cache a scan of buf from scratch builds
FreshCache(buf) == <<BracketState_new>> \o ScanLines(buf, 0, BracketState_new).after

\* the unmatched-position set a scan of buf from scratch builds
FreshUnmatched(buf) ==
  LET r == ScanLines(buf, 0, BracketState_new)
  IN r.closes \cup { <<r.stack[k][2], r.stack[k][3]>> : k \in 1..Len(r.stack) }

\* C11: while a frame renders, its scan has visited every line of the buffer,
\* and the cache and the unmatched-position set are both the ones a scan from
\* scratch of the buffer as it is now builds; a line is rendered only after
\* the scan has finished; a frame starts its cache and its set from scratch;
\* the buffer changes only between frames.
C11_FreshFrame ==
  /\ [](pc = "render" =>
          /\ Len(scanned) = Len(buffer)
          /\ states_by_line = FreshCache(buffer)
          /\ all_unmatched_brackets = FreshUnmatched(buffer))
  /\ [][ /\ (text' # text /\ text' # <<>>) =>
              /\ pc = "render"
              /\ line_idx = Len(buffer)
              /\ Len(states_by_line) = Len(buffer) + 1
         /\ (pc = "idle" /\ pc' # "idle") =>
              /\ states_by_line' = <<BracketState_new>>
              /\ all_unmatched_brackets' = {}
              /\ current_state' = BracketState_new
         /\ (buffer' # buffer) => (pc = "event" /\ pc' = "idle")
       ]_vars

\* C11 witness: a frame drawn after edits (the editor started on one empty
\* line) has rendered a line with a cache holding an open bracket and a
\* non-empty unmatched-position set
C11_Witness ==
  /\ pc = "render"
  /\ text # <<>>
  /\ Len(buffer) = 2
  /\ states_by_line[2] # <<>>
  /\ \E p \in all_unmatched_brackets : p[1] = 1

\* ------------------------------------------------------------------------
\* Renders of one frame (SpecRender)
\* ------------------------------------------------------------------------
\* C12: a render of a visible line leaves the per-line cache, the
\* unmatched-position set and the scan's running state as they were, whatever
\* lines were rendered before it in the frame and however often; two renders
\* of the same line in a frame give the same spans.
C12_RenderIsPure ==
  /\ [](pc \in {"render", "rendered"} =>
          \A m, n \in 1..Len(replayed) :
            replayed[m].line = replayed[n].line => text[m] = text[n])
  /\ [][ (pc = "render" /\ Len(text') > Len(text)) =>
            /\ states_by_line' = states_by_line
            /\ all_unmatched_brackets' = all_unmatched_brackets
            /\ current_state' = current_state
       ]_vars

\* C12 witness: line 1 rendered, then line 0, then line 1 again, where the
\* render of line 1 left its clone different from the cached state it was
\* cloned from
C12_Witness ==
  /\ pc = "render"
  /\ Len(replayed) = 3
  /\ replayed[1].line = 1
  /\ replayed[2].line = 0
  /\ replayed[3].line = 1
  /\ replayed[1].stack # states_by_line[2]
  /\ all_unmatched_brackets # {}

\* ------------------------------------------------------------------------
\* One call of highlight_syntax_with_state on an arbitrary line, from an
\* arbitrary starting BracketState and unmatched-position set
\* ------------------------------------------------------------------------
\* the characters the highlighting specification draws its line from
HlChars == {"(", ")", "[", "]", "\"", " ", "a"}

\* the positions its unmatched-position sets are drawn from
HlPositions == { <<0, 0>>, <<1, 0>>, <<1, 1>>, <<1, 2>> }

\* the caller's arguments: line_str, line_idx, bracket_state and
\* unmatched_brackets (indent_width and the theme are the configured ones)
InitHl ==
  /\ buffer \in {<<c>> : c \in StringsUpTo(HlChars, MaxHlLen)}
  /\ pc = "hl"
  /\ line_idx = 1
  /\ space_count = 0
  /\ pos = 0
  /\ tokens = <<>>
  /\ current_state \in SeedStates
  /\ states_by_line = <<>>
  /\ all_unmatched_brackets \in SUBSET HlPositions
  /\ scanned = <<>>
  /\ scroll_y = 0
  /\ height = 0
  /\ render_idx = 0
  /\ text = <<>>
  /\ replayed = <<>>
  /\ editor_indent_width = indent_width
  /\ InitSession

\* the call of highlight_syntax_with_state: the spans it returns, and the
\* bracket state it mutates through its reference
Highlight ==
  /\ pc = "hl"
  /\ LET h == highlight_syntax_with_state(buffer[1], line_idx, editor_indent_width,
                                          current_state, theme,
                                          all_unmatched_brackets)
     IN /\ text' = <<h.spans>>
        /\ replayed' = <<[line |-> line_idx, tokens |-> h.tokens,
                          stack |-> h.stack]>>
        /\ current_state' = h.stack
  /\ pc' = "hldone"
  /\ UNCHANGED <<buffer, line_idx, space_count, pos, tokens, states_by_line,
                 all_unmatched_brackets, scanned, scroll_y, height, render_idx,
                 editor_indent_width, session_vars>>

NextHl == Highlight

SpecHl == InitHl /\ [][NextHl]_vars

\* the span made from the k-th token: the token spans follow the indent spans
TokenSpan(spans, toks, k) == spans[Len(spans) - Len(toks) + k]

\* C10: the span of a bracket token carries the theme's unmatched-bracket
\* foreground and background exactly when the token's is_matched is false or
\* (line_idx, leading spaces + token.start) is in the unmatched-position
\* set; the span of every other bracket token has the foreground
\* bracket_colors[level mod palette length] and no background.
C10_BracketStyle ==
  pc = "hldone" =>
    LET toks == replayed[1].tokens
        syn == theme.syntax
        unmatched_style == [fg |-> syn.unmatched_bracket_fg,
                            bg |-> syn.unmatched_bracket_bg]
    IN \A k \in 1..Len(toks) :
         toks[k].token_type.kind = "Bracket" =>
           LET sp == TokenSpan(text[1], toks, k)
               flagged ==
                 \/ ~toks[k].token_type.is_matched
                 \/ <<line_idx, count_leading_spaces(buffer[1]) + toks[k].start>>
                      \in all_unmatched_brackets
           IN /\ sp.content = toks[k].content
              /\ (flagged <=> sp.style = unmatched_style)
              /\ (~flagged =>
                    sp.style =
                      [fg |-> syn.bracket_colors[
                                (toks[k].token_type.level % Len(syn.bracket_colors)) + 1],
                       bg |-> NoColor])

\* C10 witness: a highlighted line with a locally matched bracket that is
\* styled unmatched because its position is in the set, and another bracket
\* whose level is beyond the palette and that has its palette colour
C10_Witness ==
  /\ pc = "hldone"
  /\ LET toks == replayed[1].tokens IN
     \E j, k \in 1..Len(toks) :
       /\ toks[j].token_type.kind = "Bracket"
       /\ toks[j].token_type.is_matched
       /\ TokenSpan(text[1], toks, j).style.fg = theme.syntax.unmatched_bracket_fg
       /\ toks[k].token_type.kind = "Bracket"
       /\ toks[k].token_type.level >= PaletteLen
       /\ TokenSpan(text[1], toks, k).style.fg =
            theme.syntax.bracket_colors[(toks[k].token_type.level % PaletteLen) + 1]

\* ------------------------------------------------------------------------
\* One call of highlight_syntax_with_state on an empty or one-character
\* line, with arbitrary other arguments
\* ------------------------------------------------------------------------
\* the caller's arguments: line_str of at most one character, line_idx,
\* indent_width, bracket_state and unmatched_brackets
InitHlArgs ==
  /\ buffer \in {<<c>> : c \in StringsUpTo(HlChars, 1)}
  /\ pc = "hl"
  /\ line_idx \in 0..MaxLines
  /\ space_count = 0
  /\ pos = 0
  /\ tokens = <<>>
  /\ current_state \in SeedStates
  /\ states_by_line = <<>>
  /\ all_unmatched_brackets \in SUBSET HlPositions
  /\ scanned = <<>>
  /\ scroll_y = 0
  /\ height = 0
  /\ render_idx = 0
  /\ text = <<>>
  /\ replayed = <<>>
  /\ editor_indent_width \in 0..MaxIndentWidth
  /\ InitSession

SpecHlArgs == InitHlArgs /\ [][NextHl]_vars

\* C24: a call of highlight_syntax_with_state on an empty line returns
\* exactly one span, whose text is empty, and leaves the BracketState as it
\* was, whatever the line index, the indent width and the
\* unmatched-position set are.
C24_EmptyLine ==
  [][ (pc = "hl" /\ buffer[1] = <<>>) =>
        /\ Len(text'[1]) = 1
        /\ text'[1][1].content = <<>>
        /\ current_state' = current_state
    ]_vars

\* C24 witness: the call has returned on an empty line of index 2, with an
\* indent width of 0, a non-empty BracketState and a non-empty
\* unmatched-position set
C24_Witness ==
  /\ pc = "hldone"
  /\ buffer[1] = <<>>
  /\ line_idx = 2
  /\ editor_indent_width = 0
  /\ Len(current_state) = 2
  /\ all_unmatched_brackets # {}
  /\ Len(text[1]) = 1

\* C35: a call of highlight_syntax_with_state on a non-empty line returns
\* spans whose texts, concatenated in order, are the line, whatever the
\* indent width is (0 and widths other than 4 included): no character of
\* the line is dropped or duplicated.
C35_SpansReproduceLine ==
  [][ (pc = "hl" /\ buffer[1] # <<>>) => SpanText(text'[1]) = buffer[1] ]_vars

\* ------------------------------------------------------------------------
\* One call of highlight_syntax_with_state on a line with string literals,
\* as line 0 of a buffer, from an empty BracketState and an empty
\* unmatched-position set
\* ------------------------------------------------------------------------
\* the longest line
MaxStrLen == 5

\* the characters of the lines: the double quote, the backslash, a letter,
\* the semicolon and the space
StrChars == {"\"", "\\", "a", ";", " "}

\* the caller's arguments
InitHlStr ==
  /\ buffer \in {<<c>> : c \in StringsUpTo(StrChars, MaxStrLen)}
  /\ pc = "hl"
  /\ NoFrame
  /\ editor_indent_width = indent_width
  /\ InitSession

SpecHlStr == InitHlStr /\ [][NextHl]_vars

\* the sequence t occurs in the sequence s as a contiguous piece
Contains(s, t) ==
  \E k \in 0..(Len(s) - Len(t)) : SubSeq(s, k + 1, k + Len(t)) = t

\* the token is a double-quoted string literal that is terminated and holds
\* a backslash-escaped double quote
EscapedQuoteLiteral(t) ==
  /\ t.token_type = TT("String")
  /\ t.content[1] = "\""
  /\ ClosingQuotes(t.content, 1, "\"") # {}
  /\ \E m \in 2..(Len(t.content) - 1) :
       t.content[m] = "\"" /\ IsEscaped(t.content, 1, m)

\* the text between the quotes of a terminated literal
Body(t) == SubSeq(t.content, 2, Len(t.content) - 1)

\* some span's text is exactly one double quote
LoneQuoteSpan(spans) == \E n \in 1..Len(spans) : spans[n].content = <<"\"">>

MaxVisualLen == 3

\* the characters of the line: brackets, a letter and the space
VisualChars == {"(", ")", "a", " "}

\* usize::min
min(a, b) == IF a < b THEN a ELSE b

\* usize::saturating_sub
saturating_sub(a, b) == IF a > b THEN a - b ELSE 0

\* what one call of highlight_syntax_with_state gives for no call at all
NoPiece(bracket_state) == [spans |-> <<>>, tokens |-> <<>>, stack |-> bracket_state]

\* the spans of the selected piece: the selection background over each
selected_spans(spans, th) ==
  [k \in 1..Len(spans) |->
     [spans[k] EXCEPT !.style.bg = th.ui.visual_selection_background]]

RECURSIVE highlight_pieces(_, _, _, _, _, _)
\* the closure's Visual branch on the pieces of a line, in order: each piece
\* that is not empty goes through highlight_syntax_with_state with the
\* running clone of the cached state, and the spans of a selected piece get
\* the selection background
highlight_pieces(pieces, i, iw, bracket_state, th, unmatched) ==
  IF pieces = <<>> THEN NoPiece(bracket_state)
  ELSE
    LET piece == Head(pieces)
        h == IF piece.text = <<>> THEN NoPiece(bracket_state)
             ELSE highlight_syntax_with_state(piece.text, i, iw, bracket_state,
                                              th, unmatched)
        rest == highlight_pieces(Tail(pieces), i, iw, h.stack, th, unmatched)
    IN [spans |-> (IF piece.selected THEN selected_spans(h.spans, th)
                   ELSE h.spans) \o rest.spans,
        tokens |-> h.tokens \o rest.tokens,
        stack |-> rest.stack]

\* the render closure for line i when the mode is Visual, the selection has
\* a start and the pane is active: a line inside the selection is cut at the
\* selection's ends into three pieces of graphemes, graphemes[0..start],
\* [start..end] and [end..line_len], of which the empty ones are skipped; a
\* line outside the selection is highlighted whole
visual_line(line_str, i, start, end, iw, bracket_state, th, unmatched) ==
  LET start_x == start[1]
      start_y == start[2]
      end_x == end[1]
      end_y == end[2]
      ordered == start_y < end_y \/ (start_y = end_y /\ start_x <= end_x)
      sel_start_y == IF ordered THEN start_y ELSE end_y
      sel_start_x == IF ordered THEN start_x ELSE end_x
      sel_end_y == IF ordered THEN end_y ELSE start_y
      sel_end_x == IF ordered THEN end_x ELSE start_x
      line_len == Len(line_str)
      highlight_start == min(IF i = sel_start_y THEN sel_start_x ELSE 0, line_len)
      highlight_end == min(IF i = sel_end_y THEN sel_end_x + 1 ELSE line_len,
                           line_len)
      pieces ==
        <<[text |-> SubSeq(line_str, 1, highlight_start), selected |-> FALSE],
          [text |-> SubSeq(line_str, highlight_start + 1, highlight_end),
           selected |-> TRUE],
          [text |-> SubSeq(line_str, highlight_end + 1, line_len),
           selected |-> FALSE]>>
  IN IF i >= sel_start_y /\ i <= sel_end_y
     THEN highlight_pieces(pieces, i, iw, bracket_state, th, unmatched)
     ELSE highlight_syntax_with_state(line_str, i, iw, bracket_state, th, unmatched)

\* Window::new on a file of one line, in Normal mode; the cursor is wherever
\* the motions of earlier events left it on the line
InitVisual ==
  /\ buffer \in {<<c>> : c \in StringsUpTo(VisualChars, MaxVisualLen)}
  /\ pc = "idle"
  /\ NoFrame
  /\ editor_indent_width = indent_width
  /\ mode = "Normal"
  /\ visual_start = Nothing
  /\ cursor_x \in 0..saturating_sub(Len(buffer[1]), 1)
  /\ cursor_y = 0
  /\ undo_stack = <<>>
  /\ redo_stack = <<>>
  /\ insert_mode_start_state = Nothing
  /\ returned = Nothing
  /\ panes = [id \in {0} |-> Pane_new(0, 0)]
  /\ root_pane = 0
  /\ active_pane = 0
  /\ next_id = 1
  /\ config_theme = theme

\* what the keys of the selection leave alone
KeyFrame ==
  UNCHANGED <<buffer, line_idx, space_count, pos, tokens, current_state,
              states_by_line, all_unmatched_brackets, scanned, scroll_y, height,
              render_idx, text, replayed, editor_indent_width, undo_stack,
              redo_stack, insert_mode_start_state, returned, panes, root_pane,
              active_pane, next_id, config_theme>>

\* the "mode_visual" key of Normal mode: the selection starts at the cursor
ModeVisual ==
  /\ pc = "event"
  /\ mode = "Normal"
  /\ mode' = "Visual"
  /\ visual_start' = Some(<<cursor_x, cursor_y>>)
  /\ pc' = "idle"
  /\ UNCHANGED <<cursor_x, cursor_y>>
  /\ KeyFrame

\* the `h` key of Visual mode
VisualLeft ==
  /\ pc = "event"
  /\ mode = "Visual"
  /\ cursor_x' = IF cursor_x > 0 THEN cursor_x - 1 ELSE cursor_x
  /\ pc' = "idle"
  /\ UNCHANGED <<mode, visual_start, cursor_y>>
  /\ KeyFrame

\* the `l` key of Visual mode
VisualRight ==
  /\ pc = "event"
  /\ mode = "Visual"
  /\ cursor_x' = IF cursor_x < saturating_sub(Len(buffer[cursor_y + 1]), 1)
                 THEN cursor_x + 1
                 ELSE cursor_x
  /\ pc' = "idle"
  /\ UNCHANGED <<mode, visual_start, cursor_y>>
  /\ KeyFrame

\* what the render loop keeps of the spans, tokens and bracket state of line i
push_line(i, h) ==
  /\ text' = Append(text, h.spans)
  /\ replayed' = Append(replayed,
                        [line |-> i, tokens |-> h.tokens, stack |-> h.stack])
  /\ states_by_line' = cache_after_render(states_by_line, i, h.stack)

\* the closure of the render loop for one visible line of the active pane
RenderClosure ==
  /\ pc = "render"
  /\ render_idx < render_end
  /\ push_line(render_idx,
               IF mode = "Visual" /\ visual_start # Nothing
               THEN visual_line(buffer[render_idx + 1], render_idx, visual_start[1],
                                <<cursor_x, cursor_y>>, editor_indent_width,
                                cached_state(states_by_line, render_idx),
                                theme, all_unmatched_brackets)
               ELSE highlight_syntax_with_state(buffer[render_idx + 1], render_idx,
                                                editor_indent_width,
                                                cached_state(states_by_line, render_idx),
                                                theme, all_unmatched_brackets))
  /\ render_idx' = render_idx + 1
  /\ UNCHANGED <<buffer, pc, line_idx, space_count, pos, tokens, current_state,
                 all_unmatched_brackets, scanned, scroll_y, height,
                 editor_indent_width, session_vars>>

NextVisual ==
  \/ Draw
  \/ ScanToken
  \/ ScanEndLine
  \/ ScanFinish
  \/ RenderClosure
  \/ RenderFinish
  \/ ModeVisual
  \/ VisualLeft
  \/ VisualRight

SpecVisual == InitVisual /\ [][NextVisual]_vars

\* the style of each character of a rendered line, span by span
CharStyles(spans) ==
  Concat([k \in 1..Len(spans) |->
            [j \in 1..Len(spans[k].content) |-> spans[k].style]])

\* the level and the flag of each Bracket token, in order
BracketLevels(toks) ==
  LET bs == SelectSeq(toks, LAMBDA t : t.token_type.kind = "Bracket")
  IN [k \in 1..Len(bs) |-> bs[k].token_type]

\* C36: a line rendered inside the Visual selection has the text of the line
\* rendered whole from the same cached state, character by character the
\* same foreground (token colour, palette colour of the bracket's level,
\* unmatched-bracket override looked up at the bracket's column in the full
\* line) and the same background unless it is the selection background, its
\* Bracket tokens have the same levels and flags, and the clone of the
\* bracket state it leaves equals the next cache entry.
C36_VisualAsWholeLine ==
  (pc = "render" /\ mode = "Visual") =>
    \A n \in 1..Len(text) :
      LET i == replayed[n].line
          whole == highlight_syntax_with_state(buffer[i + 1], i, editor_indent_width,
                                               states_by_line[i + 1], theme,
                                               all_unmatched_brackets)
      IN /\ SpanText(text[n]) = SpanText(whole.spans)
         /\ \A k \in 1..Len(SpanText(text[n])) :
              /\ CharStyles(text[n])[k].fg = CharStyles(whole.spans)[k].fg
              /\ CharStyles(text[n])[k].bg
                   \in {CharStyles(whole.spans)[k].bg,
                        theme.ui.visual_selection_background}
         /\ BracketLevels(replayed[n].tokens) = BracketLevels(whole.tokens)
         /\ replayed[n].stack = states_by_line[i + 2]

\* ------------------------------------------------------------------------
\* One call of create_indent_spans or of highlight_syntax_with_state with a
\* theme whose palettes have any length, the empty one included
\* ------------------------------------------------------------------------
\* the characters of its lines
ThemeChars == {" ", "(", "a"}

\* the theme with a bracket palette of nb colours and an indent palette of
\* ni colours (both are Vec<SerializableColor>, read from the theme file)
theme_with(nb, ni) ==
  [theme EXCEPT
     !.syntax.bracket_colors = [k \in 1..nb |-> Color("bracket", k - 1)],
     !.ui.indent_colors = [k \in 1..ni |-> Color("indent", k - 1)]]

Themes == { theme_with(nb, ni) : nb \in 0..PaletteLen, ni \in 0..PaletteLen }

\* create_indent_spans panics: its loop runs at least once and computes
\* i % indent_colors.len() with an empty palette
create_indent_spans_panics(line, iw, th) ==
  /\ ~(iw = 0 \/ count_leading_spaces(line) = 0)
  /\ count_leading_spaces(line) \div iw > 0
  /\ Len(th.ui.indent_colors) = 0

\* token_to_span panics: the Bracket arm computes
\* level % bracket_colors.len() with an empty palette
token_to_span_panics(token, syn) ==
  /\ token.token_type.kind = "Bracket"
  /\ Len(syn.bracket_colors) = 0

\* the tokens and the bracket state that highlight_syntax_with_state has
\* before its token loop, on a line with a content part
tokens_of_line(line_str, i, bracket_state) ==
  tokenize_with_state(Slice(line_str, count_leading_spaces(line_str), ByteLen(line_str)),
                      i, count_leading_spaces(line_str), bracket_state)

\* highlight_syntax_with_state panics at its token loop
token_loop_panics(line_str, i, bracket_state, th) ==
  /\ Slice(line_str, count_leading_spaces(line_str), ByteLen(line_str)) # <<>>
  /\ \E k \in 1..Len(tokens_of_line(line_str, i, bracket_state).tokens) :
       token_to_span_panics(tokens_of_line(line_str, i, bracket_state).tokens[k],
                            th.syntax)

\* the caller's arguments: the line, the indent width, the bracket state and
\* the theme
InitTheme ==
  /\ buffer \in {<<c>> : c \in StringsUpTo(ThemeChars, MaxHlLen)}
  /\ pc = "hl"
  /\ line_idx = 0
  /\ space_count = 0
  /\ pos = 0
  /\ tokens = <<>>
  /\ current_state \in SeedStates
  /\ states_by_line = <<>>
  /\ all_unmatched_brackets = {}
  /\ scanned = <<>>
  /\ scroll_y = 0
  /\ height = 0
  /\ render_idx = 0
  /\ text = <<>>
  /\ replayed = <<>>
  /\ editor_indent_width \in 0..MaxIndentWidth
  /\ mode = "Normal"
  /\ visual_start = Nothing
  /\ cursor_x = 0
  /\ cursor_y = 0
  /\ undo_stack = <<>>
  /\ redo_stack = <<>>
  /\ insert_mode_start_state = Nothing
  /\ returned = Nothing
  /\ panes = [id \in {0} |-> Pane_new(0, 0)]
  /\ root_pane = 0
  /\ active_pane = 0
  /\ next_id = 1
  /\ config_theme \in Themes

\* what a call with the theme leaves alone
ThemeFrame ==
  UNCHANGED <<buffer, line_idx, space_count, pos, tokens, states_by_line,
              all_unmatched_brackets, scanned, scroll_y, height, render_idx,
              editor_indent_width, session_vars>>

\* a call of create_indent_spans: it returns its spans or panics
CreateIndentSpans ==
  /\ pc = "hl"
  /\ IF create_indent_spans_panics(buffer[1], editor_indent_width, config_theme)
     THEN /\ pc' = "panic"
          /\ UNCHANGED text
     ELSE /\ pc' = "indentdone"
          /\ text' = <<create_indent_spans(buffer[1], editor_indent_width,
                                           config_theme)>>
  /\ UNCHANGED <<replayed, current_state>>
  /\ ThemeFrame

\* a call of highlight_syntax_with_state: it returns its spans, or panics in
\* create_indent_spans, or panics in token_to_span after the tokenizer has
\* changed the bracket state
HighlightThemed ==
  /\ pc = "hl"
  /\ IF buffer[1] # <<>>
        /\ create_indent_spans_panics(buffer[1], editor_indent_width, config_theme)
     THEN /\ pc' = "panic"
          /\ UNCHANGED <<text, replayed, current_state>>
     ELSE IF buffer[1] # <<>>
             /\ token_loop_panics(buffer[1], line_idx, current_state, config_theme)
     THEN /\ pc' = "panic"
          /\ current_state' =
               tokens_of_line(buffer[1], line_idx, current_state).stack
          /\ UNCHANGED <<text, replayed>>
     ELSE /\ pc' = "hldone"
          /\ text' = <<highlight_syntax_with_state(
                         buffer[1], line_idx, editor_indent_width, current_state,
                         config_theme, all_unmatched_brackets).spans>>
          /\ replayed' = <<[line |-> line_idx,
                            tokens |-> highlight_syntax_with_state(
                                         buffer[1], line_idx, editor_indent_width,
                                         current_state, config_theme,
                                         all_unmatched_brackets).tokens,
                            stack |-> highlight_syntax_with_state(
                                        buffer[1], line_idx, editor_indent_width,
                                        current_state, config_theme,
                                        all_unmatched_brackets).stack]>>
          /\ current_state' = replayed'[1].stack
  /\ ThemeFrame

NextTheme ==
  \/ CreateIndentSpans
  \/ HighlightThemed

SpecTheme == InitTheme /\ [][NextTheme]_vars

\* C37: create_indent_spans and highlight_syntax_with_state return normally
\* for every theme, a theme with an empty indent_colors or bracket_colors
\* list included: no call ends in a panic.
C37_ReturnsNormally == pc # "panic"

\* ------------------------------------------------------------------------
\* The undo history of one Window
\* ------------------------------------------------------------------------
\* the most states that save_state and end_insert_mode leave on the undo
\* stack
UNDO_LIMIT == 100

\* open_new_line is issued only while the two stacks together hold fewer
\* states than this (and the buffer has fewer than MaxLines lines)
MaxOpenAt == 1

\* struct Window, the fields that its history reads and writes
Window(b, x, y, u, r, s) ==
  [buffer |-> b, cursor_x |-> x, cursor_y |-> y, undo_stack |-> u,
   redo_stack |-> r, insert_mode_start_state |-> s]

\* struct WindowState of a window as it is
WindowState(w) ==
  [buffer |-> w.buffer, cursor_x |-> w.cursor_x, cursor_y |-> w.cursor_y]

\* undo_stack.push(state) without the removal of the oldest state
push_uncapped(stack, state) == Append(stack, state)

\* undo_stack.push(state); if undo_stack.len() > 100 { undo_stack.remove(0) }
push_capped(stack, state) ==
  IF Len(Append(stack, state)) > UNDO_LIMIT
  THEN Tail(Append(stack, state))
  ELSE Append(stack, state)

\* Window::save_state
save_state(w) ==
  [w EXCEPT !.undo_stack = push_capped(w.undo_stack, WindowState(w)),
            !.redo_stack = <<>>]

\* Window::start_insert_mode
start_insert_mode(w) ==
  [w EXCEPT !.insert_mode_start_state = Some(WindowState(w))]

\* Window::end_insert_mode
end_insert_mode(w) ==
  IF w.insert_mode_start_state # Nothing
  THEN [w EXCEPT !.insert_mode_start_state = Nothing,
                 !.undo_stack = push_capped(w.undo_stack,
                                            w.insert_mode_start_state[1]),
                 !.redo_stack = <<>>]
  ELSE w

\* the end of undo and of redo: the window takes the popped state, and its
\* cursor is brought back inside the buffer
restore(w, state) ==
  LET y == IF state.cursor_y >= Len(state.buffer)
           THEN saturating_sub(Len(state.buffer), 1)
           ELSE state.cursor_y
      x == IF y < Len(state.buffer) /\ state.cursor_x > ByteLen(state.buffer[y + 1])
           THEN ByteLen(state.buffer[y + 1])
           ELSE state.cursor_x
  IN [w EXCEPT !.buffer = state.buffer, !.cursor_x = x, !.cursor_y = y]

\* an undo that puts on the redo stack the state it has popped, not the
\* state the window was in
undo_pushes_popped(w) ==
  IF w.undo_stack # <<>>
  THEN [window |->
          restore([w EXCEPT
                     !.undo_stack = SubSeq(w.undo_stack, 1, Len(w.undo_stack) - 1),
                     !.redo_stack = Append(w.redo_stack,
                                           w.undo_stack[Len(w.undo_stack)])],
                  w.undo_stack[Len(w.undo_stack)]),
        value |-> TRUE]
  ELSE [window |-> w, value |-> FALSE]

\* Window::undo: the window it leaves and the value it returns
undo(w) ==
  IF w.undo_stack # <<>>
  THEN [window |->
          restore([w EXCEPT
                     !.undo_stack = SubSeq(w.undo_stack, 1, Len(w.undo_stack) - 1),
                     !.redo_stack = Append(w.redo_stack, WindowState(w))],
                  w.undo_stack[Len(w.undo_stack)]),
        value |-> TRUE]
  ELSE [window |-> w, value |-> FALSE]

\* Window::redo: the window it leaves and the value it returns
redo(w) ==
  IF w.redo_stack # <<>>
  THEN [window |->
          restore([w EXCEPT
                     !.redo_stack = SubSeq(w.redo_stack, 1, Len(w.redo_stack) - 1),
                     !.undo_stack = Append(w.undo_stack, WindowState(w))],
                  w.redo_stack[Len(w.redo_stack)]),
        value |-> TRUE]
  ELSE [window |-> w, value |-> FALSE]

\* Window::open_new_line
Window_open_new_line(w) ==
  [save_state(w) EXCEPT !.buffer = open_new_line(w.buffer, w.cursor_y),
                        !.cursor_y = w.cursor_y + 1,
                        !.cursor_x = 0]

\* the window of the state
this_window ==
  Window(buffer, cursor_x, cursor_y, undo_stack, redo_stack,
         insert_mode_start_state)

\* Window::new(None): one empty line and an empty history
InitWindow ==
  /\ buffer = << <<>> >>
  /\ pc = "window"
  /\ NoFrame
  /\ editor_indent_width = indent_width
  /\ InitSession

\* a call leaves the window w and returns v
Returns(w, v) ==
  /\ buffer' = w.buffer
  /\ cursor_x' = w.cursor_x
  /\ cursor_y' = w.cursor_y
  /\ undo_stack' = w.undo_stack
  /\ redo_stack' = w.redo_stack
  /\ insert_mode_start_state' = w.insert_mode_start_state
  /\ returned' = v
  /\ UNCHANGED <<pc, line_idx, space_count, pos, tokens, current_state,
                 states_by_line, all_unmatched_brackets, scanned, scroll_y,
                 height, render_idx, text, replayed, editor_indent_width, mode,
                 visual_start, panes, root_pane, active_pane, next_id,
                 config_theme>>

\* an insert session is open: start_insert_mode has been called and
\* end_insert_mode has not; the Insert-mode handler calls nothing else of the
\* history before it ends the session
in_insert_session == insert_mode_start_state # Nothing

SaveState ==
  /\ pc = "window"
  /\ ~in_insert_session
  /\ Returns(save_state(this_window), Nothing)

StartInsertMode ==
  /\ pc = "window"
  /\ Returns(start_insert_mode(this_window), Nothing)

EndInsertMode ==
  /\ pc = "window"
  /\ Returns(end_insert_mode(this_window), Nothing)

WindowOpenNewLine ==
  /\ pc = "window"
  /\ ~in_insert_session
  /\ Len(buffer) < MaxLines
  /\ Len(undo_stack) + Len(redo_stack) < MaxOpenAt
  /\ Returns(Window_open_new_line(this_window), Nothing)

Undo ==
  /\ pc = "window"
  /\ ~in_insert_session
  /\ Returns(undo(this_window).window, Some(undo(this_window).value))

Redo ==
  /\ pc = "window"
  /\ ~in_insert_session
  /\ Returns(redo(this_window).window, Some(redo(this_window).value))

NextWindow ==
  \/ SaveState
  \/ StartInsertMode
  \/ EndInsertMode
  \/ WindowOpenNewLine
  \/ Undo
  \/ Redo

SpecWindow == InitWindow /\ [][NextWindow]_vars

\* C38: after any sequence of save_state, start_insert_mode,
\* end_insert_mode, open_new_line, undo and redo, the undo stack holds at
\* most 100 states, and the undo stack and the redo stack together hold at
\* most 100 states.
C38_HistoryCapped ==
  /\ Len(undo_stack) <= 100
  /\ Len(undo_stack) + Len(redo_stack) <= 100

\* C38 witness: the oldest state, the one-line buffer, has been removed from
\* a full undo stack, and an undo has moved one state to the redo stack
C38_Witness ==
  /\ Len(undo_stack) = 99
  /\ Len(redo_stack) = 1
  /\ Len(undo_stack[1].buffer) = 2

\* the window after the step
window_after ==
  Window(buffer', cursor_x', cursor_y', undo_stack', redo_stack',
         insert_mode_start_state')

\* C39: if undo returns true, a redo that follows it immediately returns true
\* and leaves the buffer as it was before the undo, and likewise an undo
\* that follows a redo; a call of undo or redo that returns false changes
\* neither the buffer nor the cursor nor a stack; after save_state and after
\* an insert session that end_insert_mode completes the redo stack is empty
\* and redo returns false.
C39_UndoRedoInverse ==
  [][ /\ (Undo /\ returned' = Some(TRUE)) =>
           /\ redo(window_after).value
           /\ redo(window_after).window.buffer = buffer
      /\ (Redo /\ returned' = Some(TRUE)) =>
           /\ undo(window_after).value
           /\ undo(window_after).window.buffer = buffer
      /\ ((Undo \/ Redo) /\ returned' = Some(FALSE)) =>
           UNCHANGED <<buffer, cursor_x, cursor_y, undo_stack, redo_stack>>
      /\ (SaveState \/ (EndInsertMode /\ in_insert_session)) =>
           /\ redo_stack' = <<>>
           /\ ~redo(window_after).value
    ]_vars

\* C39 witness: a redo has just brought back the two-line buffer that an
\* undo had replaced by the one-line buffer before open_new_line
C39_Witness ==
  /\ returned = Some(TRUE)
  /\ Len(buffer) = 2
  /\ Len(undo_stack) = 1
  /\ Len(undo_stack[1].buffer) = 1
  /\ redo_stack = <<>>

\* ------------------------------------------------------------------------
\* The panes of the editor: splits, moves between panes and closes, each
\* followed by a frame that lays the panes out
\* ------------------------------------------------------------------------
\* the largest pane id the splits may hand out (each split takes two ids)
MaxPaneId == 6

\* the side of the editor area, in cells
AreaSide == 16

\* the windows a split may show in its new pane
WindowIndexes == {0, 1}

\* ratatui Rect
Rect(x, y, w, h) == [x |-> x, y |-> y, width |-> w, height |-> h]
right(r) == r.x + r.width
bottom(r) == r.y + r.height

\* the area that ui() gives to calculate_layout
editor_area == Rect(0, 0, AreaSide, AreaSide)

\* Layout::split of an area in two chunks of 50 percent each
Layout_split(direction, area) ==
  IF direction = "Horizontal"
  THEN << Rect(area.x, area.y, area.width \div 2, area.height),
          Rect(area.x + area.width \div 2, area.y,
               area.width - area.width \div 2, area.height) >>
  ELSE << Rect(area.x, area.y, area.width, area.height \div 2),
          Rect(area.x, area.y + area.height \div 2,
               area.width, area.height - area.height \div 2) >>

\* struct PaneManager
PaneManager(ps, root, active, next) ==
  [panes |-> ps, root_pane |-> root, active_pane |-> active, next_id |-> next]

\* the pane manager of the state
pane_manager == PaneManager(panes, root_pane, active_pane, next_id)

\* Pane::is_leaf
is_leaf(pane) == pane.children = <<>>

\* HashMap::insert and HashMap::remove
map_insert(m, k, v) == [j \in DOMAIN m \cup {k} |-> IF j = k THEN v ELSE m[j]]
map_remove(m, k) == [j \in DOMAIN m \ {k} |-> m[j]]

\* PaneManager::split_pane: the manager it leaves and the Option it returns
\* (the ratio 0.5 is kept as the percentage that calculate_pane_layout makes
\* of it)
split_pane(pm, target_pane_id, new_window_index, direction) ==
  IF target_pane_id \notin DOMAIN pm.panes
  THEN [pm |-> pm, value |-> Nothing]
  ELSE
    LET new_pane_id == pm.next_id
        existing_child_id == pm.next_id + 1
        new_pane == [Pane_new(new_pane_id, new_window_index)
                       EXCEPT !.parent = Some(target_pane_id)]
        existing_child == [Pane_new(existing_child_id,
                                    pm.panes[target_pane_id].window_index)
                             EXCEPT !.parent = Some(target_pane_id)]
        target == [pm.panes[target_pane_id]
                     EXCEPT !.split = Some([direction |-> direction, ratio |-> 50]),
                            !.children = <<existing_child_id, new_pane_id>>]
    IN [pm |-> [pm EXCEPT
                  !.next_id = pm.next_id + 2,
                  !.panes = map_insert(map_insert(map_insert(pm.panes, target_pane_id, target),
                                                  new_pane_id, new_pane),
                                       existing_child_id, existing_child)],
        value |-> Some(new_pane_id)]

\* PaneManager::set_active_pane
set_active_pane(pm, pane_id) ==
  IF pane_id \in DOMAIN pm.panes THEN [pm EXCEPT !.active_pane = pane_id] ELSE pm

\* the loop of close_pane that gives the sibling's children their new parent
RECURSIVE reparent(_, _, _)
reparent(ps, children, parent_id) ==
  IF children = <<>> THEN ps
  ELSE reparent(IF Head(children) \in DOMAIN ps
                THEN [ps EXCEPT ![Head(children)].parent = Some(parent_id)]
                ELSE ps,
                Tail(children), parent_id)

\* the siblings that close_pane finds for pane_id under parent_id
siblings_of(ps, parent_id, pane_id) ==
  SelectSeq(ps[parent_id].children, LAMBDA id : id # pane_id)

\* close_pane indexes the pane map with a parent id or a sibling id that is
\* not in it: the index panics
close_pane_panics(pm, pane_id) ==
  /\ ~(pane_id = pm.root_pane \/ pane_id \notin DOMAIN pm.panes)
  /\ pm.panes[pane_id].parent # Nothing
  /\ \/ pm.panes[pane_id].parent[1] \notin DOMAIN pm.panes
     \/ /\ Len(siblings_of(pm.panes, pm.panes[pane_id].parent[1], pane_id)) = 1
        /\ siblings_of(pm.panes, pm.panes[pane_id].parent[1], pane_id)[1]
             \notin DOMAIN pm.panes

\* PaneManager::close_pane where it does not panic: the manager it leaves
\* and the value it returns
close_pane(pm, pane_id) ==
  IF pane_id = pm.root_pane \/ pane_id \notin DOMAIN pm.panes
  THEN [pm |-> pm, value |-> FALSE]
  ELSE IF pm.panes[pane_id].parent = Nothing
  THEN [pm |-> pm, value |-> FALSE]
  ELSE
    LET parent_id == pm.panes[pane_id].parent[1]
        siblings == siblings_of(pm.panes, parent_id, pane_id)
    IN IF Len(siblings) # 1
       THEN [pm |-> pm, value |-> FALSE]
       ELSE
         LET sibling_id == siblings[1]
             sibling_pane == pm.panes[sibling_id]
             parent_pane == [pm.panes[parent_id]
                               EXCEPT !.window_index = sibling_pane.window_index,
                                      !.split = sibling_pane.split,
                                      !.children = sibling_pane.children]
             moved == reparent(map_insert(pm.panes, parent_id, parent_pane),
                               sibling_pane.children, parent_id)
         IN [pm |-> [pm EXCEPT
                       !.panes = map_remove(map_remove(moved, pane_id), sibling_id),
                       !.active_pane = IF pm.active_pane = pane_id
                                       THEN parent_id
                                       ELSE pm.active_pane],
             value |-> TRUE]

\* PaneManager::calculate_pane_layout: the pane map with the rects of the
\* panes below pane_id
RECURSIVE calculate_pane_layout(_, _, _)
RECURSIVE layout_children(_, _, _, _)
calculate_pane_layout(ps, pane_id, area) ==
  IF pane_id \notin DOMAIN ps THEN ps
  ELSE
    IF ps[pane_id].children # <<>> /\ ps[pane_id].split # Nothing
    THEN layout_children([ps EXCEPT ![pane_id].rect = Some(area)],
                         ps[pane_id].children,
                         Layout_split(ps[pane_id].split[1].direction, area), 1)
    ELSE [ps EXCEPT ![pane_id].rect = Some(area)]

\* its loop over the children and the chunks
layout_children(ps, children, chunks, i) ==
  IF i > Len(children) THEN ps
  ELSE layout_children(IF i <= Len(chunks)
                       THEN calculate_pane_layout(ps, children[i], chunks[i])
                       ELSE ps,
                       children, chunks, i + 1)

\* PaneManager::calculate_layout
calculate_layout(pm, area) ==
  [pm EXCEPT !.panes = calculate_pane_layout(pm.panes, pm.root_pane, area)]

\* find_adjacent_pane, the test and the distance of one leaf pane
is_adjacent(current_rect, pane_rect, direction, forward) ==
  IF direction = "Horizontal"
  THEN /\ current_rect.y < bottom(pane_rect) /\ pane_rect.y < bottom(current_rect)
       /\ IF forward THEN pane_rect.x >= right(current_rect)
                     ELSE right(pane_rect) <= current_rect.x
  ELSE /\ current_rect.x < right(pane_rect) /\ pane_rect.x < right(current_rect)
       /\ IF forward THEN pane_rect.y >= bottom(current_rect)
                     ELSE bottom(pane_rect) <= current_rect.y

distance(current_rect, pane_rect, direction, forward) ==
  IF direction = "Horizontal"
  THEN IF forward THEN saturating_sub(pane_rect.x, right(current_rect))
                  ELSE saturating_sub(current_rect.x, right(pane_rect))
  ELSE IF forward THEN saturating_sub(pane_rect.y, bottom(current_rect))
                  ELSE saturating_sub(current_rect.y, bottom(pane_rect))

\* PaneManager::find_adjacent_pane: the set of the Options it can return.
\* The leaves are visited in the order of the HashMap, so among the adjacent
\* leaves at the least distance any one can be the first that is kept; a
\* leaf without a rect ends the search with None.
find_adjacent_pane(pm, direction, forward) ==
  IF pm.active_pane \notin DOMAIN pm.panes THEN {Nothing}
  ELSE IF pm.panes[pm.active_pane].rect = Nothing THEN {Nothing}
  ELSE
    LET current_rect == pm.panes[pm.active_pane].rect[1]
        others == {id \in DOMAIN pm.panes :
                     is_leaf(pm.panes[id]) /\ id # pm.active_pane}
        adjacent == {id \in others :
                       /\ pm.panes[id].rect # Nothing
                       /\ is_adjacent(current_rect, pm.panes[id].rect[1],
                                      direction, forward)}
        nearest == {id \in adjacent :
                      \A o \in adjacent :
                        distance(current_rect, pm.panes[id].rect[1], direction, forward)
                          <= distance(current_rect, pm.panes[o].rect[1], direction, forward)}
    IN IF \E id \in others : pm.panes[id].rect = Nothing THEN {Nothing}
       ELSE IF adjacent = {} THEN {Nothing}
       ELSE {Some(id) : id \in nearest}

\* PaneManager::new(0), before the first frame
InitPanes ==
  /\ buffer = << <<>> >>
  /\ pc = "idle"
  /\ NoFrame
  /\ editor_indent_width = indent_width
  /\ InitSession

\* what the pane operations leave alone
PaneFrame ==
  UNCHANGED <<buffer, line_idx, space_count, pos, tokens, current_state,
              states_by_line, all_unmatched_brackets, scanned, scroll_y, height,
              render_idx, text, replayed, editor_indent_width, mode,
              visual_start, cursor_x, cursor_y, undo_stack, redo_stack,
              insert_mode_start_state, returned, config_theme>>

\* the pane manager becomes pm
SetPaneManager(pm) ==
  /\ panes' = pm.panes
  /\ root_pane' = pm.root_pane
  /\ active_pane' = pm.active_pane
  /\ next_id' = pm.next_id

\* ui(): the frame lays the panes out
DrawPanes ==
  /\ pc = "idle"
  /\ pc' = "event"
  /\ SetPaneManager(calculate_layout(pane_manager, editor_area))
  /\ PaneFrame

\* App::vsplit_selected_item and App::hsplit_selected_item on a file: the
\* active pane is split and the new pane becomes the active one
SplitSelectedItem(direction) ==
  /\ pc = "event"
  /\ next_id + 1 <= MaxPaneId
  /\ \E window_index \in WindowIndexes :
       LET s == split_pane(pane_manager, active_pane, window_index, direction)
       IN SetPaneManager(IF s.value # Nothing
                         THEN set_active_pane(s.pm, s.value[1])
                         ELSE s.pm)
  /\ pc' = "idle"
  /\ PaneFrame

VSplit ==
  /\ pc = "event"
  /\ SplitSelectedItem("Horizontal")

HSplit ==
  /\ pc = "event"
  /\ SplitSelectedItem("Vertical")

\* move_to_left_pane, move_to_right_pane, move_to_up_pane, move_to_down_pane
MoveToPane(direction, forward) ==
  /\ pc = "event"
  /\ \E target \in find_adjacent_pane(pane_manager, direction, forward) :
       active_pane' = IF target # Nothing THEN target[1] ELSE active_pane
  /\ pc' = "idle"
  /\ UNCHANGED <<panes, root_pane, next_id>>
  /\ PaneFrame

MoveLeft ==
  /\ pc = "event"
  /\ MoveToPane("Horizontal", FALSE)

MoveRight ==
  /\ pc = "event"
  /\ MoveToPane("Horizontal", TRUE)

MoveUp ==
  /\ pc = "event"
  /\ MoveToPane("Vertical", FALSE)

MoveDown ==
  /\ pc = "event"
  /\ MoveToPane("Vertical", TRUE)

\* the command "q": the active pane is closed, and the editor quits if
\* close_pane returns false
CommandQ ==
  /\ pc = "event"
  /\ IF close_pane_panics(pane_manager, active_pane)
     THEN /\ pc' = "panic"
          /\ UNCHANGED <<panes, root_pane, active_pane, next_id>>
     ELSE /\ SetPaneManager(close_pane(pane_manager, active_pane).pm)
          /\ pc' = IF close_pane(pane_manager, active_pane).value
                   THEN "idle" ELSE "quit"
  /\ PaneFrame

NextPanes ==
  \/ DrawPanes
  \/ VSplit
  \/ HSplit
  \/ MoveLeft
  \/ MoveRight
  \/ MoveUp
  \/ MoveDown
  \/ CommandQ

SpecPanes == InitPanes /\ [][NextPanes]_vars

\* C40: after any sequence of splits of the active pane, moves to an
\* adjacent pane and closes of the active pane, the active pane id is the id
\* of a pane of the pane map that is a leaf, and the root pane is in the
\* pane map.
C40_ActiveIsLeaf ==
  /\ active_pane \in DOMAIN panes
  /\ is_leaf(panes[active_pane])
  /\ root_pane \in DOMAIN panes

====
